---- MODULE Spec2Model ----
(***************************************************************************)
(* YesButFirst: the conversation controller (ipcMain 'process-message'),   *)
(* the AI backend adapter (AIService / ClaudeService / GeminiService) and  *)
(* the text classifiers they use.                                          *)
(*                                                                         *)
(* Texts are sequences of one-character strings; a fixed message of the    *)
(* program is a one-element sequence holding the whole message, and the    *)
(* JavaScript values null and undefined are the one-element sequences      *)
(* Null and Undefined.  String concatenation is \o.                        *)
(***************************************************************************)
EXTENDS Integers, Sequences, FiniteSets, Bags, TLC

VARIABLES
    provider,             \* aiConfig.provider: which service class `ai` is
    responseLengthCfg,    \* whether ai-config has behavior.responseLength
    questionGenerator,    \* whether questionGenerator was initialised
    childAge,             \* <<>> (null) or <<age>>
    currentConversation,  \* main process: the pending question/answer
    inflight,             \* bag of process-message invocations suspended at an await
    started,              \* number of invocations begun so far
    resolved,             \* number of invocations resolved so far
    usage,                \* the adapter's this.usage
    resp,                 \* the last invocation to resolve, and what it did
    call,                 \* the last adapter call made directly (test-ai.js)
    isUnlocked,           \* main process: let isUnlocked
    mainWindow            \* the lock window, the app, and the last lock event

vars == <<provider, responseLengthCfg, questionGenerator, childAge,
          currentConversation, inflight, started, resolved, usage, resp, call,
          isUnlocked, mainWindow>>

----------------------------------------------------------------------------
(* Bounds of the model *)

MaxInFlight == 2
MaxStarted == 2
MaxCalls == 2

(* Program constants *)

maxRetries == 3

(* evaluateUnderstanding: the delay of AIService's timeoutPromise, the      *)
(* axios timeout of its request, and the axios timeout of GeminiService's  *)
(* request, in ms                                                          *)
evaluationTimeout == 10000
evaluationRequestTimeout == 8000
geminiRequestTimeout == 30000

----------------------------------------------------------------------------
(* Text helpers: what String.prototype.trim / toLowerCase / startsWith /    *)
(* includes compute.                                                       *)

Null == <<"null">>
Undefined == <<"undefined">>

WhiteSpace == {" ", "\t", "\n"}

UpperLetters == <<"A","B","C","D","E","F","G","H","I","J","K","L","M",
                  "N","O","P","Q","R","S","T","U","V","W","X","Y","Z">>
LowerLetters == <<"a","b","c","d","e","f","g","h","i","j","k","l","m",
                  "n","o","p","q","r","s","t","u","v","w","x","y","z">>

IsUpper(c) == \E i \in 1..26 : UpperLetters[i] = c
IsLower(c) == \E i \in 1..26 : LowerLetters[i] = c
IsLetter(c) == IsUpper(c) \/ IsLower(c)
IsDigit(c) == c \in {"0","1","2","3","4","5","6","7","8","9"}

LowerChar(c) ==
    IF IsUpper(c) THEN LowerLetters[CHOOSE i \in 1..26 : UpperLetters[i] = c]
    ELSE c

ToLowerCase(s) == [i \in 1..Len(s) |-> LowerChar(s[i])]

RECURSIVE TrimStart(_)
TrimStart(s) ==
    IF s # <<>> /\ Head(s) \in WhiteSpace THEN TrimStart(Tail(s)) ELSE s

RECURSIVE TrimEnd(_)
TrimEnd(s) ==
    IF s # <<>> /\ s[Len(s)] \in WhiteSpace
    THEN TrimEnd(SubSeq(s, 1, Len(s) - 1)) ELSE s

Trim(s) == TrimEnd(TrimStart(s))

StartsWith(s, p) == Len(s) >= Len(p) /\ SubSeq(s, 1, Len(p)) = p

Includes(s, c) == \E i \in 1..Len(s) : s[i] = c

(* the JavaScript test `!x` / `x || y` on a text-or-null value *)
Falsy(s) == s = Null \/ s = Undefined \/ s = <<>>
OrElse(a, b) == IF Falsy(a) THEN b ELSE a

----------------------------------------------------------------------------
(* The utterances and provider answers the model draws from *)

mWhy  == <<"W","h","y"," ","x","?">>
mIs   == <<"i","s"," ","x","?">>
mHi   == <<"h","i">>
mBees == <<"b","e","e","s">>

Messages == {mWhy, mIs, mHi, mBees}

aFollow == <<"A","."," ","B","?">>
aPlain  == <<"O","k",".">>

Answers == {aFollow, aPlain}

Stages == {"question", "understanding", "complete"}
Providers == {"openai", "claude", "gemini"}
ChildAges == {<<>>, <<7>>}

----------------------------------------------------------------------------
(* AIService.isNonsensicalQuestion: the nonsensePatterns, one operator per  *)
(* regular expression, each applied to question.trim().                    *)

JunkPrefixes == {<<"a","s","d","f">>, <<"q","w","e","r">>, <<"z","x","c","v">>, <<"p","o","i","u","y">>, <<"l","k","j","h">>, <<"t","e","s","t">>, <<"r","a","n","d","o","m">>, <<"b","l","a","h">>, <<"f","o","o">>}
Greetings == {<<"h","i">>, <<"h","e","l","l","o">>, <<"h","e","y">>, <<"y","o">>, <<"s","u","p">>}
LetMeIn == <<"l","e","t"," ","m","e"," ","i","n">>
ThisIsBroken == <<"t","h","i","s"," ","i","s"," ","b","r","o","k","e","n">>
TestToken == <<"t","e","s","t">>

NoLetters(t) == \A i \in 1..Len(t) : ~IsLetter(t[i])
RepeatedChar(t) ==
    Len(t) >= 4 /\ t[1] # "\n" /\ \A i \in 1..Len(t) : t[i] = t[1]
RandomLetters(t) == Len(t) >= 5 /\ \A i \in 1..Len(t) : IsLetter(t[i])
DigitsAndSpaces(t) ==
    Len(t) >= 1 /\ \A i \in 1..Len(t) : IsDigit(t[i]) \/ t[i] \in WhiteSpace
SpecialChars(t) ==
    Len(t) >= 1 /\ \A i \in 1..Len(t) :
        t[i] \in {"!","@","#","$","%","^","&","*","(",")"}
StartsWithJunk(t) == \E p \in JunkPrefixes : StartsWith(ToLowerCase(t), p)
StartsWithTriple(t) ==
    Len(t) >= 3 /\ IsLetter(t[1])
    /\ LowerChar(t[1]) = LowerChar(t[2]) /\ LowerChar(t[2]) = LowerChar(t[3])
ExactFiller(t) ==
    ToLowerCase(t) \in Greetings \cup {TestToken, LetMeIn, ThisIsBroken}

MatchesNonsensePattern(t) ==
    \/ NoLetters(t)
    \/ RepeatedChar(t)
    \/ RandomLetters(t)
    \/ DigitsAndSpaces(t)
    \/ SpecialChars(t)
    \/ StartsWithJunk(t)
    \/ StartsWithTriple(t)
    \/ ExactFiller(t)

(* isNonsensicalQuestion with the length test off by one *)
isNonsensicalQuestionShorterLimit(question) ==
    IF Falsy(question) \/ Len(Trim(question)) < 2 THEN TRUE
    ELSE MatchesNonsensePattern(Trim(question))

isNonsensicalQuestion(question) ==
    IF Falsy(question) \/ Len(Trim(question)) < 3 THEN TRUE
    ELSE MatchesNonsensePattern(Trim(question))

----------------------------------------------------------------------------
(* The inline isNewQuestion test of the understanding stage *)

QuestionWords == {<<"w","h","a","t"," ">>, <<"h","o","w"," ">>, <<"w","h","y"," ">>, <<"w","h","e","n"," ">>, <<"w","h","e","r","e"," ">>, <<"w","h","o"," ">>}

hasQuestionMark(message) == Includes(message, "?")

startsWithQuestionWord(message) ==
    \E w \in QuestionWords : StartsWith(Trim(ToLowerCase(message)), w)

(* isNewQuestion deciding on the question mark alone *)
isNewQuestionByMarkAlone(message) == hasQuestionMark(message)

(* isNewQuestion accepting the interrogative word without the space *)
isNewQuestionWithoutSpace(message) ==
    /\ hasQuestionMark(message)
    /\ \E w \in QuestionWords :
          StartsWith(Trim(ToLowerCase(message)), SubSeq(w, 1, Len(w) - 1))

isNewQuestion(message) ==
    hasQuestionMark(message) /\ startsWithQuestionWord(message)

----------------------------------------------------------------------------
(* extractFollowUpQuestion (main process) and                              *)
(* AIService.extractFollowUpQuestionFromResponse                           *)

SentenceEnd == {".", "!"}

(* index of the last character of s[1..upto] that lies in set, 0 if none *)
LastIndexIn(s, upto, set) ==
    LET hits == {i \in 1..upto : s[i] \in set}
    IN IF hits = {} THEN 0 ELSE CHOOSE i \in hits : \A j \in hits : j <= i

(* /[.!]*\s*([^.!]*\?)\s*$/ : the text after the last '.' or '!', when the  *)
(* text ends (up to white space) in '?'                                     *)
TrailingQuestion(s) ==
    LET e == TrimEnd(s)
    IN IF e # <<>> /\ e[Len(e)] = "?"
       THEN Trim(SubSeq(e, LastIndexIn(e, Len(e), SentenceEnd) + 1, Len(e)))
       ELSE Null

(* /[^.!?]*\?/g, last match: from after the previous '.', '!' or '?' up to  *)
(* the last '?'                                                            *)
LastQuestion(s) ==
    LET q == LastIndexIn(s, Len(s), {"?"})
    IN IF q = 0 THEN Null
       ELSE Trim(SubSeq(s, LastIndexIn(s, q - 1, {".", "!", "?"}) + 1, q))

(* extractFollowUpQuestion without the fallback scan *)
extractFollowUpQuestionAtEndOnly(aiResponse) ==
    IF Falsy(aiResponse) THEN Null ELSE TrailingQuestion(aiResponse)

extractFollowUpQuestion(aiResponse) ==
    IF Falsy(aiResponse) THEN Null
    ELSE IF TrailingQuestion(aiResponse) # Null
         THEN TrailingQuestion(aiResponse)
         ELSE LastQuestion(aiResponse)

extractFollowUpQuestionFromResponse(response) ==
    IF Falsy(response) THEN Null
    ELSE IF TrailingQuestion(response) # Null
         THEN TrailingQuestion(response)
         ELSE LastQuestion(response)

----------------------------------------------------------------------------
(* AIService.getAgeGroup; an age is <<>> (absent) or <<n>> *)

getAgeGroup(age) ==
    IF age = <<>> \/ age[1] = 0 THEN "teen"
    ELSE IF age[1] >= 5 /\ age[1] <= 8 THEN "young"
    ELSE IF age[1] >= 9 /\ age[1] <= 12 THEN "middle"
    ELSE IF age[1] >= 13 /\ age[1] <= 17 THEN "teen"
    ELSE IF age[1] < 5 THEN "young"
    ELSE "teen"

----------------------------------------------------------------------------
(* QuestionGenerator.getNextQuestionLevel with                             *)
(* QuestionStrategies.responseComplexity                                   *)

ComplexWords == {<<"b","e","c","a","u","s","e">>, <<"h","o","w","e","v","e","r">>, <<"t","h","e","r","e","f","o","r","e">>, <<"a","l","t","h","o","u","g","h">>, <<"c","o","n","s","i","d","e","r","i","n","g">>}

IsWordChar(c) == IsLetter(c) \/ IsDigit(c) \/ c = "_"

(* /\b(w)\b/i for a word w made of letters *)
ContainsWord(s, w) ==
    \E i \in 1..Len(s) :
        /\ i + Len(w) - 1 <= Len(s)
        /\ ToLowerCase(SubSeq(s, i, i + Len(w) - 1)) = w
        /\ (i = 1 \/ ~IsWordChar(s[i - 1]))
        /\ (i + Len(w) - 1 = Len(s) \/ ~IsWordChar(s[i + Len(w)]))

SplitOnSpaceLength(s) == Cardinality({i \in 1..Len(s) : s[i] = " "}) + 1

responseComplexityLevel(childResponse) ==
    LET responseLength == SplitOnSpaceLength(childResponse)
        hasComplexWords == \E w \in ComplexWords : ContainsWord(childResponse, w)
        hasQuestions == Includes(childResponse, "?")
    IN IF responseLength > 10 /\ (hasComplexWords \/ hasQuestions) THEN "complex"
       ELSE IF responseLength > 5 \/ hasComplexWords THEN "developing"
       ELSE "simple"

getNextQuestionLevel(childResponse) ==
    CASE responseComplexityLevel(childResponse) = "simple" ->
            <<"Can you tell me more about what you're thinking?">>
      [] responseComplexityLevel(childResponse) = "developing" ->
            <<"What connections do you see between this and...?">>
      [] OTHER ->
            <<"How might others challenge that perspective?">>

----------------------------------------------------------------------------
(* QuestionGenerator.generateExampleQuestions (question-generator.js) with *)
(* QuestionStrategies.interestBasedTemplates. A question is a sequence of  *)
(* pieces of text; a template is cut where /this (animal|technology|sport| *)
(* art|music)/gi matches, so that a match is a piece of its own.           *)

interestMapping ==
    (<<"A","n","i","m","a","l","s">> :> "animals") @@
    (<<"D","o","g","s">> :> "animals") @@
    (<<"C","a","t","s">> :> "animals") @@
    (<<"B","i","r","d","s">> :> "animals") @@
    (<<"T","e","c","h","n","o","l","o","g","y">> :> "technology") @@
    (<<"P","r","o","g","r","a","m","m","i","n","g">> :> "technology") @@
    (<<"R","o","b","o","t","i","c","s">> :> "technology") @@
    (<<"S","o","c","c","e","r">> :> "sports") @@
    (<<"B","a","s","k","e","t","b","a","l","l">> :> "sports") @@
    (<<"S","w","i","m","m","i","n","g">> :> "sports") @@
    (<<"A","r","t">> :> "art") @@
    (<<"D","r","a","w","i","n","g">> :> "art") @@
    (<<"P","a","i","n","t","i","n","g">> :> "art") @@
    (<<"P","h","o","t","o","g","r","a","p","h","y">> :> "art") @@
    (<<"M","u","s","i","c">> :> "music") @@
    (<<"S","i","n","g","i","n","g">> :> "music") @@
    (<<"D","a","n","c","i","n","g">> :> "music") @@
    (<<"H","i","s","t","o","r","y">> :> "history") @@
    (<<"A","n","c","i","e","n","t"," ","C","i","v","i","l","i","z","a","t","i","o","n","s">> :> "history")

interestBasedTemplates ==
    [
     animals |->
        [young |-> <<"If you could ask ", "this animal", " one question, what would it be?">>,
         middle |-> <<"How do you think ", "this animal", "'s life compares to yours?">>,
         teen |-> <<"What ethical responsibilities do humans have toward this species?">>],
     technology |->
        [young |-> <<"What would happen if ", "this technology", " didn't exist?">>,
         middle |-> <<"How has ", "this technology", " changed the way people live?">>,
         teen |-> <<"What unintended consequences might ", "this technology", " have?">>],
     sports |->
        [young |-> <<"What's the most exciting thing about ", "this sport", "?">>,
         middle |-> <<"How do you think strategy affects the outcome?">>,
         teen |-> <<"How does ", "this sport", " reflect broader cultural values?">>],
     art |->
        [young |-> <<"What would you create if you could make anything?">>,
         middle |-> <<"How do artists communicate ideas through their work?">>,
         teen |-> <<"How does art influence social change?">>],
     music |->
        [young |-> <<"How does ", "this music", " make your body want to move?">>,
         middle |-> <<"What emotions is this composer trying to create?">>,
         teen |-> <<"How does music reflect the society that creates it?">>],
     history |->
        [young |-> <<"What would it be like to live in that time?">>,
         middle |-> <<"How did people's daily lives differ from ours?">>,
         teen |-> <<"What lessons from this period apply to today's challenges?">>] ]

generalQuestions ==
    [
     young |->
        {<<"Why do you think shadows change size during the day?">>,
         <<"What would happen if gravity was half as strong?">>,
         <<"How do you think animals choose where to build their homes?">>,
         <<"What makes some foods taste sweet and others salty?">>,
         <<"Why do some things float in water and others sink?">>},
     middle |->
        {<<"How does your brain decide what to remember and what to forget?">>,
         <<"What would society be like if everyone could read minds?">>,
         <<"How do different cultures solve the same problems differently?">>,
         <<"What makes some inventions change the world while others don't?">>,
         <<"How does the language you speak affect how you think?">>},
     teen |->
        {<<"How do you think artificial intelligence will change human relationships?">>,
         <<"What ethical responsibilities do we have to future generations?">>,
         <<"How do social media algorithms influence democratic societies?">>,
         <<"What role should science play in making policy decisions?">>,
         <<"How might space exploration change humanity's perspective on Earth?">>} ]

ThisPhrases == {"this animal", "this technology", "this sport", "this art", "this music"}

(* template.replace(/this (animal|technology|sport|art|music)/gi,          *)
(*                  interest.toLowerCase())                                *)
RECURSIVE personalizeQuestion(_, _)
personalizeQuestion(template, interest) ==
    IF template = <<>> THEN <<>>
    ELSE (IF Head(template) \in ThisPhrases THEN ToLowerCase(interest)
          ELSE <<Head(template)>>)
         \o personalizeQuestion(Tail(template), interest)

(* QuestionGenerator.getAgeGroup *)
QuestionGeneratorGetAgeGroup(age) ==
    IF age = <<>> \/ age[1] = 0 THEN "teen"
    ELSE IF age[1] >= 5 /\ age[1] <= 8 THEN "young"
    ELSE IF age[1] >= 9 /\ age[1] <= 12 THEN "middle"
    ELSE "teen"

(* for (const interest of interests.slice(0, maxCount)) ... *)
RECURSIVE generateInterestBasedQuestions(_, _, _)
generateInterestBasedQuestions(ageGroup, interests, maxCount) ==
    IF interests = <<>> \/ maxCount <= 0 THEN <<>>
    ELSE (IF Head(interests) \in DOMAIN interestMapping
          THEN <<personalizeQuestion(
                    interestBasedTemplates[interestMapping[Head(interests)]][ageGroup],
                    Head(interests))>>
          ELSE <<>>)
         \o generateInterestBasedQuestions(ageGroup, Tail(interests), maxCount - 1)

(* ConversationTracker.recommendNextComplexity:                            *)
(* const ageGroup = age <= 9 ? 'young' : age <= 13 ? 'middle' : 'teen';    *)
(* a null age compares as 0                                                *)
recommendNextComplexityAgeGroup(age) ==
    IF age = <<>> THEN "young"
    ELSE IF age[1] <= 9 THEN "young"
    ELSE IF age[1] <= 13 THEN "middle"
    ELSE "teen"

(* shuffleArray(array): every order the random swaps can produce *)
shuffleArray(array) ==
    {[i \in 1..Len(array) |-> array[f[i]]] :
        f \in {g \in [1..Len(array) -> 1..Len(array)] :
                  \A i, j \in 1..Len(array) : g[i] = g[j] => i = j}}

(* GeneralFill with an if in place of the while: at most one question *)
GeneralFillOnce(ageGroup, free) ==
    [1..(IF free > 0 THEN 1 ELSE 0) -> generalQuestions[ageGroup]]

(* the questions the while loop can append: one question of              *)
(* generateGeneralQuestions(ageGroup, 1) for each slot that is still free *)
GeneralFill(ageGroup, free) ==
    [1..(IF free > 0 THEN free ELSE 0) -> generalQuestions[ageGroup]]

(* array.slice(0, count) *)
SliceFromStart(array, count) ==
    SubSeq(array, 1, IF count < Len(array) THEN count ELSE Len(array))

(* generateExampleQuestions(childProfile, count): every result the random  *)
(* choices can produce                                                     *)
generateExampleQuestions(childProfile, count) ==
    LET ageGroup == QuestionGeneratorGetAgeGroup(childProfile.age)
        fromInterests ==
            IF Len(childProfile.interests) > 0
            THEN generateInterestBasedQuestions(ageGroup, childProfile.interests, count)
            ELSE <<>>
    IN UNION {{SliceFromStart(shuffled, count) : shuffled \in shuffleArray(fromInterests \o fill)} :
                 fill \in GeneralFill(ageGroup, count - Len(fromInterests))}

----------------------------------------------------------------------------
(* ConversationTracker (conversation-tracker.js) *)

EmotionalWords ==
    {<<"w","o","w">>, <<"a","m","a","z","i","n","g">>, <<"c","o","o","l">>, <<"i","n","t","e","r","e","s","t","i","n","g">>, <<"s","u","r","p","r","i","s","e","d">>, <<"e","x","c","i","t","e","d">>, <<"c","u","r","i","o","u","s">>, <<"w","o","n","d","e","r">>, <<"l","o","v","e">>, <<"h","a","t","e">>, <<"s","c","a","r","e","d">>, <<"h","a","p","p","y">>, <<"s","a","d">>}

ElaborativeWords ==
    {<<"b","e","c","a","u","s","e">>, <<"s","i","n","c","e">>, <<"a","l","s","o">>, <<"a","n","d">>, <<"b","u","t">>, <<"h","o","w","e","v","e","r">>, <<"a","c","t","u","a","l","l","y">>, <<"r","e","a","l","l","y">>, <<"v","e","r","y">>, <<"s","o">>, <<"t","h","e","n">>, <<"n","e","x","t">>, <<"f","i","r","s","t">>, <<"f","i","n","a","l","l","y">>}

EngagementScore(response) ==
    LET responseLength == SplitOnSpaceLength(response)
        hasQuestions == Includes(response, "?")
        hasEmotionalWords == \E w \in EmotionalWords : ContainsWord(response, w)
        hasElaborativeWords == \E w \in ElaborativeWords : ContainsWord(response, w)
    IN (IF responseLength > 15 THEN 3
        ELSE IF responseLength > 8 THEN 2
        ELSE IF responseLength > 3 THEN 1 ELSE 0)
       + (IF hasQuestions THEN 2 ELSE 0)
       + (IF hasEmotionalWords THEN 2 ELSE 0)
       + (IF hasElaborativeWords THEN 1 ELSE 0)

(* assessEngagementLevel with the bar for 'high' one point lower *)
assessEngagementLevelLowerBar(response) ==
    IF EngagementScore(response) >= 5 THEN "high"
    ELSE IF EngagementScore(response) >= 3 THEN "medium"
    ELSE "low"

assessEngagementLevel(response) ==
    IF EngagementScore(response) >= 6 THEN "high"
    ELSE IF EngagementScore(response) >= 3 THEN "medium"
    ELSE "low"

ComplexStructureWords ==
    {<<"b","e","c","a","u","s","e">>, <<"h","o","w","e","v","e","r">>, <<"t","h","e","r","e","f","o","r","e">>, <<"a","l","t","h","o","u","g","h">>, <<"c","o","n","s","i","d","e","r","i","n","g">>, <<"m","e","a","n","w","h","i","l","e">>, <<"f","u","r","t","h","e","r","m","o","r","e">>, <<"c","o","n","s","e","q","u","e","n","t","l","y">>, <<"n","e","v","e","r","t","h","e","l","e","s","s">>}

ComparisonWords ==
    {<<"l","i","k","e">>, <<"s","i","m","i","l","a","r">>, <<"d","i","f","f","e","r","e","n","t">>, <<"c","o","m","p","a","r","e","d"," ","t","o">>, <<"w","h","e","r","e","a","s">>, <<"w","h","i","l","e">>, <<"i","n","s","t","e","a","d">>}

AbstractWords ==
    {<<"c","o","n","c","e","p","t">>, <<"i","d","e","a">>, <<"t","h","e","o","r","y">>, <<"p","r","i","n","c","i","p","l","e">>, <<"r","e","l","a","t","i","o","n","s","h","i","p">>, <<"p","a","t","t","e","r","n">>, <<"s","y","s","t","e","m">>, <<"p","r","o","c","e","s","s">>, <<"i","m","p","l","i","c","a","t","i","o","n">>, <<"p","e","r","s","p","e","c","t","i","v","e">>}

(* response.split(/[.!?]/).length *)
SplitOnPunctuationLength(s) ==
    Cardinality({i \in 1..Len(s) : s[i] \in {".", "!", "?"}}) + 1

ComplexityScore(response) ==
    LET responseLength == SplitOnSpaceLength(response)
        hasComplexStructure == \E w \in ComplexStructureWords : ContainsWord(response, w)
        hasMultipleClauses == SplitOnPunctuationLength(response) > 2
        hasComparisons == \E w \in ComparisonWords : ContainsWord(response, w)
        hasAbstractThinking == \E w \in AbstractWords : ContainsWord(response, w)
    IN (IF responseLength > 20 THEN 2
        ELSE IF responseLength > 10 THEN 1 ELSE 0)
       + (IF hasComplexStructure THEN 3 ELSE 0)
       + (IF hasMultipleClauses THEN 2 ELSE 0)
       + (IF hasComparisons THEN 2 ELSE 0)
       + (IF hasAbstractThinking THEN 3 ELSE 0)

(* analyzeResponseComplexity with the bar for 'developing' one point higher *)
analyzeResponseComplexityHigherBar(response) ==
    IF ComplexityScore(response) >= 6 THEN "complex"
    ELSE IF ComplexityScore(response) >= 4 THEN "developing"
    ELSE "simple"

analyzeResponseComplexity(response) ==
    IF ComplexityScore(response) >= 6 THEN "complex"
    ELSE IF ComplexityScore(response) >= 3 THEN "developing"
    ELSE "simple"

(* topicPatterns: the first group of the science pattern *)
ScienceTriggers ==
    {<<"h","o","w">>, <<"w","h","y">>, <<"w","h","a","t"," ","m","a","k","e","s">>, <<"e","x","p","l","a","i","n">>, <<"w","o","r","k">>, <<"f","u","n","c","t","i","o","n">>, <<"h","a","p","p","e","n">>, <<"c","a","u","s","e">>}

(* topicPatterns: the alternatives of each pattern (for science, of its    *)
(* second group)                                                           *)
TopicWords ==
    [
       science |->
          {<<"g","r","a","v","i","t","y">>, <<"a","t","o","m">>, <<"m","o","l","e","c","u","l","e">>, <<"e","n","e","r","g","y">>, <<"f","o","r","c","e">>, <<"s","p","e","e","d">>, <<"h","e","a","t">>, <<"l","i","g","h","t">>, <<"s","o","u","n","d">>, <<"e","l","e","c","t","r","i","c","i","t","y">>, <<"m","a","g","n","e","t">>, <<"c","h","e","m","i","c","a","l">>, <<"r","e","a","c","t","i","o","n">>, <<"p","h","y","s","i","c","s">>, <<"b","i","o","l","o","g","y">>, <<"c","h","e","m","i","s","t","r","y">>},
       nature |->
          {<<"a","n","i","m","a","l">>, <<"p","l","a","n","t">>, <<"t","r","e","e">>, <<"f","l","o","w","e","r">>, <<"b","i","r","d">>, <<"f","i","s","h">>, <<"i","n","s","e","c","t">>, <<"w","e","a","t","h","e","r">>, <<"r","a","i","n">>, <<"s","n","o","w">>, <<"s","u","n">>, <<"m","o","o","n">>, <<"e","a","r","t","h">>, <<"p","l","a","n","e","t">>, <<"o","c","e","a","n">>, <<"r","i","v","e","r">>, <<"m","o","u","n","t","a","i","n">>, <<"f","o","r","e","s","t">>, <<"d","e","s","e","r","t">>, <<"e","c","o","s","y","s","t","e","m">>, <<"e","n","v","i","r","o","n","m","e","n","t">>},
       technology |->
          {<<"c","o","m","p","u","t","e","r">>, <<"i","n","t","e","r","n","e","t">>, <<"r","o","b","o","t">>, <<"a","r","t","i","f","i","c","i","a","l"," ","i","n","t","e","l","l","i","g","e","n","c","e">>, <<"a","i">>, <<"p","r","o","g","r","a","m","m","i","n","g">>, <<"a","p","p">>, <<"s","o","f","t","w","a","r","e">>, <<"h","a","r","d","w","a","r","e">>, <<"s","m","a","r","t","p","h","o","n","e">>, <<"t","a","b","l","e","t">>, <<"v","i","r","t","u","a","l"," ","r","e","a","l","i","t","y">>, <<"d","r","o","n","e">>, <<"e","l","e","c","t","r","i","c">>, <<"d","i","g","i","t","a","l">>, <<"t","e","c","h">>},
       space |->
          {<<"s","p","a","c","e">>, <<"p","l","a","n","e","t">>, <<"s","t","a","r">>, <<"g","a","l","a","x","y">>, <<"u","n","i","v","e","r","s","e">>, <<"a","s","t","r","o","n","a","u","t">>, <<"r","o","c","k","e","t">>, <<"s","a","t","e","l","l","i","t","e">>, <<"m","a","r","s">>, <<"m","o","o","n">>, <<"s","u","n">>, <<"s","o","l","a","r"," ","s","y","s","t","e","m">>, <<"b","l","a","c","k"," ","h","o","l","e">>, <<"m","e","t","e","o","r">>, <<"c","o","m","e","t">>, <<"a","l","i","e","n">>},
       history |->
          {<<"a","n","c","i","e","n","t">>, <<"c","i","v","i","l","i","z","a","t","i","o","n">>, <<"e","m","p","i","r","e">>, <<"w","a","r">>, <<"k","i","n","g","d","o","m">>, <<"p","h","a","r","a","o","h">>, <<"k","n","i","g","h","t">>, <<"c","a","s","t","l","e">>, <<"r","e","v","o","l","u","t","i","o","n">>, <<"d","i","s","c","o","v","e","r","y">>, <<"e","x","p","l","o","r","e","r">>, <<"i","n","v","e","n","t","i","o","n">>, <<"p","r","e","h","i","s","t","o","r","i","c">>, <<"d","i","n","o","s","a","u","r">>, <<"f","o","s","s","i","l">>},
       art |->
          {<<"p","a","i","n","t">>, <<"d","r","a","w">>, <<"m","u","s","i","c">>, <<"s","i","n","g">>, <<"d","a","n","c","e">>, <<"s","c","u","l","p","t","u","r","e">>, <<"a","r","t","i","s","t">>, <<"c","o","l","o","r">>, <<"c","r","e","a","t","i","v","e">>, <<"d","e","s","i","g","n">>, <<"b","e","a","u","t","y">>, <<"e","x","p","r","e","s","s","i","o","n">>, <<"i","n","s","t","r","u","m","e","n","t">>, <<"m","e","l","o","d","y">>, <<"r","h","y","t","h","m">>, <<"c","o","m","p","o","s","i","t","i","o","n">>},
       social |->
          {<<"f","r","i","e","n","d">>, <<"f","a","m","i","l","y">>, <<"p","e","o","p","l","e">>, <<"c","u","l","t","u","r","e">>, <<"s","o","c","i","e","t","y">>, <<"c","o","u","n","t","r","y">>, <<"l","a","n","g","u","a","g","e">>, <<"t","r","a","d","i","t","i","o","n">>, <<"c","e","l","e","b","r","a","t","i","o","n">>, <<"c","o","m","m","u","n","i","t","y">>, <<"r","e","l","a","t","i","o","n","s","h","i","p">>, <<"e","m","o","t","i","o","n">>, <<"f","e","e","l","i","n","g">>, <<"b","e","h","a","v","i","o","r">>},
       philosophy |->
          {<<"w","h","y"," ","d","o"," ","w","e">>, <<"w","h","a","t"," ","i","s"," ","t","h","e"," ","m","e","a","n","i","n","g">>, <<"p","u","r","p","o","s","e">>, <<"e","x","i","s","t","e","n","c","e">>, <<"c","o","n","s","c","i","o","u","s","n","e","s","s">>, <<"r","e","a","l","i","t","y">>, <<"t","r","u","t","h">>, <<"b","e","l","i","e","f">>, <<"m","o","r","a","l">>, <<"e","t","h","i","c","a","l">>, <<"r","i","g","h","t">>, <<"w","r","o","n","g">>, <<"f","r","e","e","d","o","m">>, <<"j","u","s","t","i","c","e">>} ]

(* Object.entries(topicPatterns) in insertion order *)
TopicOrder == <<"science", "nature", "technology", "space", "history", "art", "social", "philosophy">>

(* \b(w)\b matching at position i of s, case-insensitive *)
WordAt(s, w, i) ==
    /\ i + Len(w) - 1 <= Len(s)
    /\ ToLowerCase(SubSeq(s, i, i + Len(w) - 1)) = w
    /\ (i = 1 \/ ~IsWordChar(s[i - 1]))
    /\ (i + Len(w) - 1 = Len(s) \/ ~IsWordChar(s[i + Len(w)]))

(* pattern.test(question) for the pattern of one topic *)
TopicMatches(topic, question) ==
    IF topic = "science"
    THEN \E t \in ScienceTriggers : \E i \in 1..Len(question) :
            /\ WordAt(question, t, i)
            /\ \E w \in TopicWords.science : \E j \in (i + Len(t))..Len(question) :
                  WordAt(question, w, j)
    ELSE \E w \in TopicWords[topic] : ContainsWord(question, w)

(* analyzeQuestionTopics stopping at the first topic that matches *)
analyzeQuestionTopicsFirstOnly(question) ==
    LET detectedTopics == SelectSeq(TopicOrder, LAMBDA t : TopicMatches(t, question))
    IN IF Len(detectedTopics) > 0 THEN <<Head(detectedTopics)>> ELSE <<"general">>

analyzeQuestionTopics(question) ==
    LET detectedTopics == SelectSeq(TopicOrder, LAMBDA t : TopicMatches(t, question))
    IN IF Len(detectedTopics) > 0 THEN detectedTopics ELSE <<"general">>

----------------------------------------------------------------------------
(* The classifiers tabulated over the texts the model draws from *)

NonsensicalTable == [m \in Messages |-> isNonsensicalQuestion(m)]
NewQuestionTable == [m \in Messages |-> isNewQuestion(m)]
FollowUpTable == [a \in Answers \cup {<<>>} |-> extractFollowUpQuestion(a)]

Nonsensical(m) ==
    IF m \in Messages THEN NonsensicalTable[m] ELSE isNonsensicalQuestion(m)
NewQuestion(m) ==
    IF m \in Messages THEN NewQuestionTable[m] ELSE isNewQuestion(m)
FollowUp(a) ==
    IF a \in Answers \cup {<<>>} THEN FollowUpTable[a] ELSE extractFollowUpQuestion(a)

----------------------------------------------------------------------------
(* The provider: what one HTTP request of an adapter call comes back with. *)
(* "ok" carries the answer text and the total_tokens the provider reports; *)
(* "e503" is an error with response.status 503; "eOther" is any other      *)
(* rejection (network error, another status, a body of the wrong shape).   *)

ReportedTokens(a) == Len(a) + 4

AnswerOutcomes ==
    {[kind |-> "ok", answer |-> a, tokens |-> ReportedTokens(a)] : a \in Answers}
    \cup {[kind |-> "e503", answer |-> Null, tokens |-> 0],
          [kind |-> "eOther", answer |-> Null, tokens |-> 0]}

AnswerOutcomeSeqs == [1..maxRetries -> AnswerOutcomes]

(* What an evaluation request comes back with: "json" is a body whose text *)
(* parses as JSON to `value`; "badJson" a body that does not parse; "hang" *)
(* a request the provider never answers.                                   *)

EvalValue(isObject, understood, feedback, suggestion) ==
    [isObject |-> isObject, understood |-> understood,
     feedback |-> feedback, suggestion |-> suggestion]

vUnderstood    == EvalValue(TRUE, TRUE, <<"Yes!">>, Null)
vNotUnderstood == EvalValue(TRUE, FALSE, <<"Hmm.">>, <<"Think about B.">>)
vNoSuggestion  == EvalValue(TRUE, FALSE, <<"Hmm.">>, Null)
vJsonNull      == EvalValue(FALSE, FALSE, Null, Null)

EvalValues == {vUnderstood, vNotUnderstood, vNoSuggestion, vJsonNull}

NoValue == EvalValue(FALSE, FALSE, Undefined, Undefined)

EvalOutcome(kind, value) == [kind |-> kind, value |-> value]

EvalOutcomes ==
    {EvalOutcome("json", v) : v \in EvalValues}
    \cup {EvalOutcome(k, NoValue) : k \in {"badJson", "e503", "eOther", "hang"}}

(* per attempt, for a direct call of the adapter *)
EvalOutcomeSeqs ==
    [1..maxRetries ->
        {EvalOutcome("json", vUnderstood), EvalOutcome("json", vNotUnderstood)}
        \cup {EvalOutcome(k, NoValue) : k \in {"badJson", "e503", "eOther", "hang"}}]

----------------------------------------------------------------------------
(* The result of one adapter call, as the caller sees it, with what the    *)
(* call did on the way: the provider requests it issued, the waits it      *)
(* inserted (ms, in order), and the token counts it passed to updateUsage. *)

RedirectMessage ==
    <<"Please ask a real question to unlock your computer! Try something like: How do airplanes fly? Why is the sky blue? How do computers work?">>

AnswerResult(kind, answer, isNonsense, tokens, requests, waits, updates) ==
    [kind |-> kind, answer |-> answer, isNonsense |-> isNonsense,
     tokens |-> tokens, requests |-> requests, waits |-> waits,
     updates |-> updates]

AnswerThrows(requests, waits) ==
    AnswerResult("throw", Undefined, FALSE, 0, requests, waits, <<>>)

(* AIService.answerQuestion: the retry loop from attempt on *)
RECURSIVE AIServiceAttempts(_, _, _)
AIServiceAttempts(attempt, outs, waits) ==
    IF attempt > maxRetries
    THEN AnswerResult("undefined", Undefined, FALSE, 0, attempt - 1, waits, <<>>)
    ELSE IF outs[attempt].kind = "ok"
    THEN AnswerResult("return", Trim(outs[attempt].answer), FALSE,
                      outs[attempt].tokens, attempt, waits, <<>>)
    ELSE IF attempt = maxRetries
    THEN AnswerThrows(attempt, waits)
    ELSE AIServiceAttempts(attempt + 1, outs, Append(waits, 1000 * attempt))

(* AIService.answerQuestion giving up after the first failed request *)
AIServiceAnswerQuestionWithoutRetry(question, hasResponseLength, outs) ==
    IF Nonsensical(question)
    THEN AnswerResult("return", RedirectMessage, TRUE, 0, 0, <<>>, <<>>)
    ELSE IF ~hasResponseLength
    THEN AnswerThrows(0, <<>>)
    ELSE IF outs[1].kind = "ok"
    THEN AIServiceAttempts(1, outs, <<>>)
    ELSE AnswerThrows(1, <<>>)

AIServiceAnswerQuestion(question, hasResponseLength, outs) ==
    IF Nonsensical(question)
    THEN AnswerResult("return", RedirectMessage, TRUE, 0, 0, <<>>, <<>>)
    ELSE IF ~hasResponseLength
    THEN AnswerThrows(0, <<>>)
    ELSE AIServiceAttempts(1, outs, <<>>)

(* GeminiService.getFallbackAnswer: the first key the lower-cased question *)
(* includes, in the table's order                                          *)
FallbackResponses ==
    << [key |-> <<"w","h","a","t"," ","i","s"," ","2","+","2">>, text |-> <<"fallback: what is 2+2", "What do you think about this explanation?">>, length |-> 176],
       [key |-> <<"w","h","y"," ","i","s"," ","t","h","e"," ","s","k","y"," ","b","l","u","e">>, text |-> <<"fallback: why is the sky blue", "What do you think about this explanation?">>, length |-> 249],
       [key |-> <<"h","o","w"," ","d","o"," ","a","i","r","p","l","a","n","e","s"," ","f","l","y">>, text |-> <<"fallback: how do airplanes fly", "What do you think about this explanation?">>, length |-> 202],
       [key |-> <<"w","h","a","t"," ","m","a","k","e","s"," ","r","a","i","n","b","o","w","s">>, text |-> <<"fallback: what makes rainbows", "What do you think about this explanation?">>, length |-> 206],
       [key |-> <<"w","h","y"," ","d","o"," ","w","e"," ","d","r","e","a","m">>, text |-> <<"fallback: why do we dream", "What do you think about this explanation?">>, length |-> 192],
       [key |-> <<"h","o","w"," ","d","o"," ","m","a","g","n","e","t","s"," ","w","o","r","k">>, text |-> <<"fallback: how do magnets work", "What do you think about this explanation?">>, length |-> 204] >>

GenericFallback ==
    [text |-> <<"That's a really interesting question! I'm having trouble connecting to my knowledge right now, but I'd love to help you learn about this. Can you try asking a different question about science, nature, or how things work?">>,
     length |-> 220]

IncludesText(s, k) ==
    \E i \in 1..(Len(s) - Len(k) + 1) : SubSeq(s, i, i + Len(k) - 1) = k

FallbackEntry(question) ==
    LET hits == {i \in 1..Len(FallbackResponses) :
                    IncludesText(ToLowerCase(question), FallbackResponses[i].key)}
    IN IF hits = {} THEN GenericFallback
       ELSE LET first == CHOOSE i \in hits : \A j \in hits : i <= j
            IN [text |-> FallbackResponses[first].text,
                length |-> FallbackResponses[first].length]

getFallbackAnswer(question) == FallbackEntry(question).text

(* Math.ceil(n / 4) *)
CeilQuarter(n) == (n + 3) \div 4

(* GeminiService.answerQuestion: the retry loop from attempt on, and the   *)
(* fallback that follows the loop                                          *)
RECURSIVE GeminiAttempts(_, _, _, _, _, _)
GeminiAttempts(attempt, question, hasResponseLength, outs, requests, waits) ==
    IF attempt > maxRetries
    THEN LET estimatedTokens ==
                 CeilQuarter(Len(question) + FallbackEntry(question).length)
         IN AnswerResult("return", getFallbackAnswer(question), FALSE,
                         estimatedTokens, requests, waits, <<estimatedTokens>>)
    ELSE IF ~hasResponseLength
    THEN IF attempt = maxRetries
         THEN AnswerThrows(requests, waits)
         ELSE GeminiAttempts(attempt + 1, question, hasResponseLength, outs,
                             requests, waits)
    ELSE IF outs[attempt].kind = "ok"
    THEN LET estimatedTokens ==
                 CeilQuarter(Len(question) + Len(outs[attempt].answer))
         IN AnswerResult("return", outs[attempt].answer, FALSE,
                         estimatedTokens, requests + 1, waits, <<estimatedTokens>>)
    ELSE IF outs[attempt].kind = "e503" /\ attempt < maxRetries
    THEN GeminiAttempts(attempt + 1, question, hasResponseLength, outs,
                        requests + 1, Append(waits, attempt * 2000))
    ELSE IF attempt = maxRetries
    THEN AnswerThrows(requests + 1, waits)
    ELSE GeminiAttempts(attempt + 1, question, hasResponseLength, outs,
                        requests + 1, waits)

GeminiAnswerQuestion(question, hasResponseLength, outs) ==
    GeminiAttempts(1, question, hasResponseLength, outs, 0, <<>>)

(* ai.answerQuestion for the configured provider; ClaudeService overrides  *)
(* nothing                                                                 *)
answerQuestion(prov, question, hasResponseLength, outs) ==
    IF prov = "gemini"
    THEN GeminiAnswerQuestion(question, hasResponseLength, outs)
    ELSE AIServiceAnswerQuestion(question, hasResponseLength, outs)

(* whether the call gets as far as a provider request, i.e. suspends *)
AnswerSuspends(prov, question, hasResponseLength) ==
    /\ hasResponseLength
    /\ (prov = "gemini" \/ ~Nonsensical(question))

----------------------------------------------------------------------------
(* evaluateUnderstanding *)

(* endedBy: for each request issued, the event that ended the wait for it *)
EvalResult(kind, value, requests, waits, endedBy) ==
    [kind |-> kind, value |-> value, requests |-> requests, waits |-> waits,
     endedBy |-> endedBy]

(* Promise.race([apiCall, timeoutPromise]): what ends the wait for one     *)
(* request; a request the provider never answers is ended by whichever of  *)
(* the two timers is due first                                             *)
AIServiceRequestEnd(out) ==
    CASE out.kind \in {"json", "badJson"} -> "response"
      [] out.kind = "hang" ->
            IF evaluationTimeout < evaluationRequestTimeout
            THEN "adapterTimeout" ELSE "transportTimeout"
      [] OTHER -> "error"

(* GeminiService awaits the request alone: only axios' timeout ends a      *)
(* request the provider never answers                                      *)
GeminiRequestEnd(out) ==
    CASE out.kind \in {"json", "badJson"} -> "response"
      [] out.kind = "hang" -> "transportTimeout"
      [] OTHER -> "error"

GeminiRequestEnds(outs, requests) ==
    [i \in 1..requests |-> GeminiRequestEnd(outs[i])]

AIServiceDefaultEvaluation ==
    EvalValue(TRUE, TRUE, <<"Good effort! You can unlock your computer now.">>, Null)

GeminiDefaultEvaluation ==
    EvalValue(TRUE, TRUE, <<"Great job! You can unlock your computer now.">>, Null)

(* AIService.evaluateUnderstanding letting a failure of the request out *)
AIServiceEvaluateRejects(out) ==
    IF out.kind = "json"
    THEN EvalResult("resolve", out.value, 1, <<>>, <<AIServiceRequestEnd(out)>>)
    ELSE EvalResult("reject", NoValue, 1, <<>>, <<AIServiceRequestEnd(out)>>)

(* AIService.evaluateUnderstanding: one request raced against the timeout; *)
(* every failure inside the try is caught                                  *)
AIServiceEvaluateUnderstanding(out) ==
    IF out.kind = "json"
    THEN EvalResult("resolve", out.value, 1, <<>>, <<AIServiceRequestEnd(out)>>)
    ELSE EvalResult("resolve", AIServiceDefaultEvaluation, 1, <<>>,
                    <<AIServiceRequestEnd(out)>>)

(* GeminiService.evaluateUnderstanding: the retry loop from attempt on *)
RECURSIVE GeminiEvaluateAttempts(_, _, _)
GeminiEvaluateAttempts(attempt, outs, waits) ==
    IF attempt > maxRetries
    THEN EvalResult("resolve", GeminiDefaultEvaluation, maxRetries, waits,
                    GeminiRequestEnds(outs, maxRetries))
    ELSE IF outs[attempt].kind = "json"
    THEN EvalResult("resolve", outs[attempt].value, attempt, waits,
                    GeminiRequestEnds(outs, attempt))
    ELSE IF outs[attempt].kind = "e503" /\ attempt < maxRetries
    THEN GeminiEvaluateAttempts(attempt + 1, outs, Append(waits, attempt * 2000))
    ELSE GeminiEvaluateAttempts(attempt + 1, outs, waits)

GeminiEvaluateUnderstanding(outs) == GeminiEvaluateAttempts(1, outs, <<>>)

evaluateUnderstanding(prov, outs) ==
    IF prov = "gemini"
    THEN GeminiEvaluateUnderstanding(outs)
    ELSE AIServiceEvaluateUnderstanding(outs[1])

(* updateUsage storing the call's own counts over the record *)
updateUsageOverwrites(u, updates) ==
    IF updates = <<>> THEN u
    ELSE [totalTokens |-> Head(updates), conversations |-> 1]

(* AIService.updateUsage, once per token count of a call *)
RECURSIVE updateUsage(_, _)
updateUsage(u, updates) ==
    IF updates = <<>> THEN u
    ELSE updateUsage([totalTokens |-> u.totalTokens + Head(updates),
                      conversations |-> u.conversations + 1],
                     Tail(updates))

----------------------------------------------------------------------------
(* The main process: currentConversation and the 'process-message' handler *)
(* of main-with-ai.js                                                      *)

Conversation(question, answer, stage) ==
    [question |-> question, answer |-> answer, stage |-> stage]

InitialConversation == Conversation(Null, Null, "question")

(* the lock window as createWindow leaves it, the app running, and no lock *)
(* event yet; vetoed is whether the last close event was prevented         *)
Window(state, quit, lastEvent, vetoed) ==
    [state |-> state, quit |-> quit, lastEvent |-> lastEvent, vetoed |-> vetoed]

InitialWindow == Window("open", FALSE, "none", FALSE)

(* currentConversation = {} *)
EmptyConversation == Conversation(Undefined, Undefined, "undefined")

(* what the handler resolves with; a flag the object does not carry is FALSE *)
Response(message, stage, unlock, retry, error, hasUsage, tokens) ==
    [returned |-> TRUE, message |-> message, stage |-> stage,
     unlock |-> unlock, retry |-> retry, error |-> error,
     hasUsage |-> hasUsage, tokens |-> tokens]

(* the handler resolves with undefined *)
NoResponse ==
    [returned |-> FALSE, message |-> Undefined, stage |-> "undefined",
     unlock |-> FALSE, retry |-> FALSE, error |-> FALSE,
     hasUsage |-> FALSE, tokens |-> 0]

ConnectivityMessage ==
    <<"Sorry, I'm having trouble connecting right now. Try asking in a different way or check your internet!">>

(* what a turn leaves behind: the new currentConversation, the response,   *)
(* and the number of 'unlock-computer' events it sent                      *)
Outcome(conv, response, unlockEvents) ==
    [conv |-> conv, response |-> response, unlockEvents |-> unlockEvents]

(* error.message of a request the provider failed: axios' text for a       *)
(* status, a network failure or its timeout, JSON.parse's for a bad body   *)
ProviderErrorMessages ==
    {<<"Request failed with status code 503">>, <<"Network Error">>,
     <<"timeout of 8000ms exceeded">>, <<"Unexpected end of JSON input">>}

(* error.message of what reaches a catch of the handler: the error         *)
(* AIService.answerQuestion throws in place of the provider's, the         *)
(* ReferenceError of the evaluate branch's log, the adapter's timeout      *)
CaughtErrorMessages ==
    {<<"Failed to get answer from AI">>, <<"childInterests is not defined">>,
     <<"Evaluation timeout">>}

(* OuterCatch handing the caught error's message to the shell *)
OuterCatchShowsError ==
    Outcome(InitialConversation,
            Response(<<"Failed to get answer from AI">>, "question", FALSE, FALSE, TRUE, FALSE, 0),
            0)

(* the catch of the handler's outer try *)
OuterCatch ==
    Outcome(InitialConversation,
            Response(ConnectivityMessage, "question", FALSE, FALSE, TRUE, FALSE, 0),
            0)

(* StorePending with the question assignment left out *)
StorePendingWithoutQuestion(conv, message, answer) ==
    [conv EXCEPT !.answer = answer]

(* StorePending with the answer assignment left out *)
StorePendingWithoutAnswer(conv, message, answer) ==
    [conv EXCEPT !.question = message]

(* currentConversation.question = message; currentConversation.answer = ... *)
StorePending(conv, message, answer) ==
    [conv EXCEPT !.question = message, !.answer = answer]

(* the handler after `await ai.answerQuestion(...)`, in the question branch *)
(* and in the new-question branch alike                                    *)
AfterAnswer(conv, message, result) ==
    IF result.kind # "return"
    THEN OuterCatch
    ELSE IF result.isNonsense
    THEN Outcome(conv,
                 Response(result.answer, "question", FALSE, FALSE, FALSE,
                          TRUE, result.tokens),
                 0)
    ELSE Outcome(StorePending(conv, message, result.answer),
                 Response(result.answer, "understanding", FALSE, FALSE, FALSE,
                          TRUE, result.tokens),
                 0)

(* The names each block of the handler declares with let/const, and the    *)
(* names visible everywhere in the handler (its parameters, the            *)
(* destructured data, the module's variables).                             *)
BlockDeclares(block) ==
    CASE block = "question" ->
            {"isFirstResponse", "childInterests", "response"}
      [] block = "newQuestion" ->
            {"childInterests", "response"}
      [] block = "evaluate" ->
            {"childProfile", "nextLevel", "aiResponse", "followUpQuestion",
             "evaluation"}

HandlerScope ==
    {"event", "data", "message", "stage", "conversation", "lowerMessage",
     "hasQuestionMark", "startsWithQuestionWord", "isNewQuestion",
     "ai", "db", "questionGenerator", "conversationTracker", "childAge",
     "currentConversation", "mainWindow", "isUnlocked"}

(* the names the 'Making AI call with:' log of a block reads *)
MakingAICallLogReads(block) ==
    CASE block = "question" ->
            {"message", "childAge", "isFirstResponse", "conversation",
             "childInterests"}
      [] block = "newQuestion" ->
            {"message", "childAge", "conversation", "childInterests"}
      [] block = "evaluate" ->
            {"followUpQuestion", "currentConversation", "childAge",
             "conversation", "childInterests"}

(* reading a name that is not in scope throws a ReferenceError *)
LogThrowsReferenceError(block) ==
    ~(MakingAICallLogReads(block) \subseteq (HandlerScope \cup BlockDeclares(block)))

GenerousFallback == EvalValue(TRUE, TRUE, <<"Nice!">>, <<>>)

(* the arguments the evaluate branch builds for ai.evaluateUnderstanding *)
EvaluateArgs(conv, message, hist) ==
    <<OrElse(FollowUp(OrElse(conv.answer, <<>>)), conv.question),
      conv.answer, message, hist>>

(* what the try/catch around the evaluation leaves: the evaluation, the    *)
(* conversation, how often ai.evaluateUnderstanding was called, and        *)
(* whether an error escaped to the outer try                               *)
Judged(evaluation, conv, evalCalls, escaped) ==
    [evaluation |-> evaluation, conv |-> conv, evalCalls |-> evalCalls,
     escaped |-> escaped]

(* EvaluationCatch rethrowing instead of substituting an evaluation *)
EvaluationCatchRethrows(evalCalls) ==
    Judged(NoValue, InitialConversation, evalCalls, TRUE)

(* the catch of the evaluation try *)
EvaluationCatch(evalCalls) ==
    Judged(GenerousFallback, InitialConversation, evalCalls, FALSE)

(* the evaluation try: the log statement, then the call *)
TryEvaluate(prov, conv, outs) ==
    IF LogThrowsReferenceError("evaluate")
    THEN EvaluationCatch(0)
    ELSE IF evaluateUnderstanding(prov, outs).kind # "resolve"
    THEN EvaluationCatch(1)
    ELSE Judged(evaluateUnderstanding(prov, outs).value, conv, 1, FALSE)

UnlockMessage(age) ==
    CASE getAgeGroup(age) = "young" -> <<"Great job! Computer unlocked!">>
      [] getAgeGroup(age) = "middle" -> <<"Nice thinking! Computer unlocked!">>
      [] OTHER -> <<"Well done! Access granted!">>

(* let suggestion = evaluation.suggestion || "Try again?";                 *)
(* if (nextLevel) suggestion = nextLevel.nextQuestion || suggestion        *)
RetrySuggestion(evaluation, hasGenerator, message) ==
    IF hasGenerator
    THEN OrElse(getNextQuestionLevel(message),
                OrElse(evaluation.suggestion, <<"Try again?">>))
    ELSE OrElse(evaluation.suggestion, <<"Try again?">>)

(* Decide with the 'unlock-computer' event left out *)
DecideWithoutUnlockEvent(judged, age, hasGenerator, message) ==
    IF judged.escaped \/ ~judged.evaluation.isObject
    THEN OuterCatch
    ELSE IF judged.evaluation.understood
    THEN Outcome(InitialConversation,
                 Response(UnlockMessage(age), "complete", TRUE, FALSE, FALSE,
                          FALSE, 0),
                 0)
    ELSE Outcome(judged.conv,
                 Response(judged.evaluation.feedback \o <<" ">>
                             \o RetrySuggestion(judged.evaluation, hasGenerator, message),
                          "understanding", FALSE, TRUE, FALSE, FALSE, 0),
                 0)

(* Decide keeping the computer locked for a child whose age is not set *)
DecideLocksUnknownAge(judged, age, hasGenerator, message) ==
    IF judged.escaped \/ ~judged.evaluation.isObject
    THEN OuterCatch
    ELSE IF judged.evaluation.understood /\ age # <<>>
    THEN Outcome(InitialConversation,
                 Response(UnlockMessage(age), "complete", TRUE, FALSE, FALSE,
                          FALSE, 0),
                 1)
    ELSE Outcome(judged.conv,
                 Response(judged.evaluation.feedback \o <<" ">>
                             \o RetrySuggestion(judged.evaluation, hasGenerator, message),
                          "understanding", FALSE, TRUE, FALSE, FALSE, 0),
                 0)

(* if (evaluation.understood) ... else ... *)
Decide(judged, age, hasGenerator, message) ==
    IF judged.escaped \/ ~judged.evaluation.isObject
    THEN OuterCatch
    ELSE IF judged.evaluation.understood
    THEN Outcome(InitialConversation,
                 Response(UnlockMessage(age), "complete", TRUE, FALSE, FALSE,
                          FALSE, 0),
                 1)
    ELSE Outcome(judged.conv,
                 Response(judged.evaluation.feedback \o <<" ">>
                             \o RetrySuggestion(judged.evaluation, hasGenerator, message),
                          "understanding", FALSE, TRUE, FALSE, FALSE, 0),
                 0)

----------------------------------------------------------------------------
(* The record of the last turn to resolve *)

(* what the turn record keeps of an adapter call *)
Seen(result) ==
    [kind |-> result.kind, answer |-> result.answer,
     isNonsense |-> result.isNonsense, tokens |-> result.tokens,
     requests |-> result.requests]

NoAnswerResult == Seen(AnswerResult("none", Undefined, FALSE, 0, 0, <<>>, <<>>))
NoOracle == [i \in 1..maxRetries |-> EvalOutcome("none", NoValue)]
NoJudgement == Judged(NoValue, InitialConversation, 0, FALSE)

(* kind: the branch of the handler that ran; input, inStage: the message   *)
(* and stage it was invoked with; answerArgs: the isFirstResponse and      *)
(* conversationLength passed to ai.answerQuestion; adapter: what that call *)
(* settled with; evalArgs: the question and answer built for               *)
(* ai.evaluateUnderstanding; oracle: what the provider would send back to  *)
(* an evaluation request of this turn                                      *)
Turn(kind, message, stage, outcome, answerCalls, answerArgs, adapter, evalArgs, judged, oracle) ==
    [kind |-> kind, input |-> message, inStage |-> stage,
     response |-> outcome.response, unlockEvents |-> outcome.unlockEvents,
     answerCalls |-> answerCalls, answerArgs |-> answerArgs, adapter |-> adapter,
     evalArgs |-> evalArgs, evalCalls |-> judged.evalCalls,
     evaluation |-> judged.evaluation, oracle |-> oracle]

NoTurn ==
    Turn("init", Undefined, "undefined",
         Outcome(InitialConversation, NoResponse, 0), 0, <<>>, NoAnswerResult,
         <<>>, NoJudgement, NoOracle)

(* a direct adapter call: the operation, its question, what the provider   *)
(* sent back on each attempt, and the result                               *)
Call(op, question, outs, result) ==
    [op |-> op, question |-> question, outs |-> outs, result |-> result]

NoCall == Call("none", Undefined, <<>>, <<>>)

(* an invocation suspended in `await ai.answerQuestion(...)` *)
Pending(kind, message, stage, answerArgs) ==
    [kind |-> kind, message |-> message, stage |-> stage,
     answerArgs |-> answerArgs]

(* conversation.length: no history, or some *)
Histories == {0, 1}

----------------------------------------------------------------------------
Init ==
    /\ provider \in Providers
    /\ responseLengthCfg \in BOOLEAN
    /\ questionGenerator \in BOOLEAN
    /\ childAge \in ChildAges
    /\ currentConversation = InitialConversation
    /\ inflight = EmptyBag
    /\ started = 0
    /\ resolved = 0
    /\ usage = [totalTokens |-> 0, conversations |-> 0]
    /\ resp = NoTurn
    /\ call = NoCall
    /\ isUnlocked = FALSE
    /\ mainWindow = InitialWindow

(* what no process-message handler assigns *)
Config ==
    <<provider, responseLengthCfg, questionGenerator, childAge, call,
      isUnlocked, mainWindow>>

(* every result ai.answerQuestion can settle with, over what the provider *)
(* may send back on each attempt                                          *)
AnswerResults(prov, question, hasResponseLength) ==
    {answerQuestion(prov, question, hasResponseLength, outs) :
        outs \in AnswerOutcomeSeqs}

(* the handler from `await ai.answerQuestion(...)` to its return, the call *)
(* having settled with result                                              *)
FinishAnswer(kind, message, stage, answerArgs, conv, result) ==
    \E outcome \in {AfterAnswer(conv, message, result)} :
        /\ currentConversation' = outcome.conv
        /\ usage' = updateUsage(usage, result.updates)
        /\ resolved' = resolved + 1
        /\ resp' = Turn(kind, message, stage, outcome, 1, answerArgs,
                        Seen(result), <<>>, NoJudgement, NoOracle)

(* the call settles without a provider request: nothing else runs between *)
(* the call and the handler's return                                       *)
AnswerAtOnce(kind, message, stage, answerArgs, conv) ==
    /\ \E result \in AnswerResults(provider, message, responseLengthCfg) :
          FinishAnswer(kind, message, stage, answerArgs, conv, result)
    /\ UNCHANGED inflight

(* the call issues a provider request: the handler is suspended *)
Suspend(kind, message, stage, answerArgs, conv) ==
    /\ BagCardinality(inflight) < MaxInFlight
    /\ inflight' = inflight (+) SetToBag({Pending(kind, message, stage, answerArgs)})
    /\ currentConversation' = conv
    /\ UNCHANGED <<usage, resp, resolved>>

(* process-message with stage 'question'; hist is conversation.length *)
ProcessQuestion(message, hist) ==
    /\ started < MaxStarted
    /\ started' = started + 1
    /\ IF AnswerSuspends(provider, message, responseLengthCfg)
       THEN Suspend("question", message, "question", <<hist = 0, hist>>,
                    currentConversation)
       ELSE AnswerAtOnce("question", message, "question", <<hist = 0, hist>>,
                         currentConversation)
    /\ UNCHANGED Config

(* ProcessNewQuestion keeping the pending pair and passing on the turn's   *)
(* own history, as the question branch does                                *)
ProcessNewQuestionAsFollowUp(message, hist) ==
    /\ started < MaxStarted
    /\ NewQuestion(message)
    /\ started' = started + 1
    /\ IF AnswerSuspends(provider, message, responseLengthCfg)
       THEN Suspend("newQuestion", message, "understanding", <<hist = 0, hist>>,
                    currentConversation)
       ELSE AnswerAtOnce("newQuestion", message, "understanding", <<hist = 0, hist>>,
                         currentConversation)
    /\ UNCHANGED Config

(* process-message with stage 'understanding' and a new question *)
ProcessNewQuestion(message, hist) ==
    /\ started < MaxStarted
    /\ NewQuestion(message)
    /\ started' = started + 1
    /\ IF AnswerSuspends(provider, message, responseLengthCfg)
       THEN Suspend("newQuestion", message, "understanding", <<TRUE, 0>>,
                    EmptyConversation)
       ELSE AnswerAtOnce("newQuestion", message, "understanding", <<TRUE, 0>>,
                         EmptyConversation)
    /\ UNCHANGED Config

(* the pending ai.answerQuestion of a suspended invocation p settles *)
AnswerSettles(p) ==
    /\ \E result \in AnswerResults(provider, p.message, responseLengthCfg) :
          FinishAnswer(p.kind, p.message, p.stage, p.answerArgs,
                       currentConversation, result)
    /\ inflight' = inflight (-) SetToBag({p})
    /\ UNCHANGED <<started, Config>>

(* process-message with stage 'understanding' and a reply; outs is what    *)
(* the provider would send back to an evaluation request                   *)
ProcessReply(message, hist, outs) ==
    /\ started < MaxStarted
    /\ ~NewQuestion(message)
    /\ started' = started + 1
    /\ resolved' = resolved + 1
    /\ \E judged \in {TryEvaluate(provider, currentConversation, outs)} :
       \E outcome \in {Decide(judged, childAge, questionGenerator, message)} :
          /\ currentConversation' = outcome.conv
          /\ resp' = Turn("evaluate", message, "understanding", outcome, 0, <<>>,
                          NoAnswerResult,
                          EvaluateArgs(currentConversation, message, hist),
                          judged, outs)
    /\ UNCHANGED <<inflight, usage, Config>>

(* ProcessOtherStage starting the conversation afresh *)
ProcessOtherStageResets(message, hist) ==
    /\ started < MaxStarted
    /\ started' = started + 1
    /\ resolved' = resolved + 1
    /\ resp' = Turn("none", message, "complete",
                    Outcome(InitialConversation, NoResponse, 0), 0, <<>>,
                    NoAnswerResult, <<>>, NoJudgement, NoOracle)
    /\ currentConversation' = InitialConversation
    /\ UNCHANGED <<inflight, usage, Config>>

(* process-message with any other stage: neither branch runs and the       *)
(* handler resolves with undefined                                         *)
ProcessOtherStage(message, hist) ==
    /\ started < MaxStarted
    /\ started' = started + 1
    /\ resolved' = resolved + 1
    /\ resp' = Turn("none", message, "complete",
                    Outcome(currentConversation, NoResponse, 0), 0, <<>>,
                    NoAnswerResult, <<>>, NoJudgement, NoOracle)
    /\ UNCHANGED <<currentConversation, inflight, usage, Config>>

(* what the provider would do with an evaluation request of a turn *)
ControllerEvalOracles ==
    {[i \in 1..maxRetries |-> o] :
        o \in {EvalOutcome("json", vUnderstood), EvalOutcome("json", vNotUnderstood),
               EvalOutcome("json", vJsonNull), EvalOutcome("eOther", NoValue)}}

Next ==
    \/ \E m \in Messages, h \in Histories : ProcessQuestion(m, h)
    \/ \E m \in Messages, h \in Histories : ProcessNewQuestion(m, h)
    \/ \E m \in Messages, h \in Histories, outs \in ControllerEvalOracles :
          ProcessReply(m, h, outs)
    \/ \E m \in Messages, h \in Histories : ProcessOtherStage(m, h)
    \/ \E p \in BagToSet(inflight) : AnswerSettles(p)

Spec == Init /\ [][Next]_vars

----------------------------------------------------------------------------
(* The lock: isUnlocked, the close handler of the lock window, and the     *)
(* three ways out of it, beside the process-message handler                *)

NotLock ==
    <<provider, responseLengthCfg, questionGenerator, childAge,
      currentConversation, inflight, started, resolved, usage, resp, call>>

(* the close handler passes every close event while isUnlocked is true or  *)
(* false alike                                                             *)
CloseVetoedNever(unlocked) == FALSE

(* mainWindow.on('close', (e) => { if (!isUnlocked) e.preventDefault() }) *)
CloseVetoed(unlocked) == ~unlocked

(* a close request reaches the lock window; once the window has closed,    *)
(* window-all-closed quits the app, isUnlocked being true                  *)
CloseRequested ==
    /\ ~mainWindow.quit
    /\ mainWindow.state = "open"
    /\ \E vetoed \in {CloseVetoed(isUnlocked)} :
          mainWindow' = IF vetoed
                        THEN Window("open", FALSE, "close", TRUE)
                        ELSE Window("closed", isUnlocked, "close", FALSE)
    /\ UNCHANGED <<isUnlocked, NotLock>>

(* ipcMain.on('unlock-app'): the window is destroyed, which emits no close *)
(* event, and the app quits                                                *)
UnlockApp ==
    /\ ~mainWindow.quit
    /\ isUnlocked' = TRUE
    /\ mainWindow' = Window("destroyed", TRUE, "unlock-app", mainWindow.vetoed)
    /\ UNCHANGED NotLock

(* ipcMain.handle('emergency-unlock'): db.logEmergencyUnlock() catches its *)
(* own errors, so the flag is always reached                               *)
EmergencyUnlock ==
    /\ ~mainWindow.quit
    /\ isUnlocked' = TRUE
    /\ mainWindow' = Window("destroyed", TRUE, "emergency-unlock", mainWindow.vetoed)
    /\ UNCHANGED NotLock

(* the emergency-exit shortcut: isUnlocked = true; app.quit(), which asks  *)
(* the window to close                                                     *)
EmergencyShortcut ==
    /\ ~mainWindow.quit
    /\ isUnlocked' = TRUE
    /\ \E vetoed \in {mainWindow.state = "open" /\ CloseVetoed(TRUE)} :
          mainWindow' = IF vetoed
                        THEN Window("open", FALSE, "emergency-exit", TRUE)
                        ELSE Window("closed", TRUE, "emergency-exit", FALSE)
    /\ UNCHANGED NotLock

(* the app while it runs: turns of the conversation and lock events *)
NextLock ==
    \/ ~mainWindow.quit /\ Next
    \/ CloseRequested
    \/ UnlockApp
    \/ EmergencyUnlock
    \/ EmergencyShortcut

SpecLock == Init /\ [][NextLock]_vars

----------------------------------------------------------------------------
(* The adapter called directly, as test-ai.js does: answerQuestion and     *)
(* evaluateUnderstanding on the configured service                         *)

InitAdapter ==
    /\ provider \in Providers
    /\ responseLengthCfg \in BOOLEAN
    /\ questionGenerator = FALSE
    /\ childAge = <<>>
    /\ currentConversation = InitialConversation
    /\ inflight = EmptyBag
    /\ started = 0
    /\ resolved = 0
    /\ usage = [totalTokens |-> 0, conversations |-> 0]
    /\ resp = NoTurn
    /\ call = NoCall
    /\ isUnlocked = FALSE
    /\ mainWindow = InitialWindow

NotAdapter ==
    <<provider, responseLengthCfg, questionGenerator, childAge,
      currentConversation, inflight, resolved, resp, isUnlocked, mainWindow>>

(* await ai.answerQuestion(question, ...) *)
CallAnswer(question, outs) ==
    /\ started < MaxCalls
    /\ started' = started + 1
    /\ \E result \in {answerQuestion(provider, question, responseLengthCfg, outs)} :
          /\ call' = Call("answer", question, outs, result)
          /\ usage' = updateUsage(usage, result.updates)
    /\ UNCHANGED NotAdapter

(* await ai.evaluateUnderstanding(question, answer, childResponse): the    *)
(* three texts only go into the prompt                                     *)
CallEvaluate(outs) ==
    /\ started < MaxCalls
    /\ started' = started + 1
    /\ call' = Call("evaluate", Undefined, outs, evaluateUnderstanding(provider, outs))
    /\ UNCHANGED usage
    /\ UNCHANGED NotAdapter

(* a real question and a nonsensical one *)
AdapterQuestions == {mWhy, mHi}

NextAdapter ==
    \/ \E q \in AdapterQuestions, outs \in AnswerOutcomeSeqs : CallAnswer(q, outs)
    \/ \E outs \in EvalOutcomeSeqs : CallEvaluate(outs)

SpecAdapter == InitAdapter /\ [][NextAdapter]_vars

----------------------------------------------------------------------------
(* The earlier 'process-message' handler (the main process without the     *)
(* database, the question generator and the new-question test)             *)

EarlierUnlockSuffix == <<" Great job! You can unlock your computer now.">>

EarlierTroubleMessage ==
    <<"I'm having trouble connecting right now, but good effort! You can unlock your computer.">>

(* the catch of the earlier handler: nothing is reset *)
EarlierCatch(conv) ==
    Outcome(conv,
            Response(EarlierTroubleMessage, "complete", FALSE, FALSE, TRUE, FALSE, 0),
            0)

(* after `await ai.answerQuestion(message)` *)
EarlierAfterAnswer(conv, message, result) ==
    IF result.kind # "return"
    THEN EarlierCatch(conv)
    ELSE Outcome(StorePending(conv, message, result.answer),
                 Response(result.answer, "understanding", FALSE, FALSE, FALSE,
                          TRUE, result.tokens),
                 0)

(* after `await ai.evaluateUnderstanding(question, answer, message)` *)
EarlierAfterEvaluation(conv, evaluated) ==
    IF evaluated.kind # "resolve" \/ ~evaluated.value.isObject
    THEN EarlierCatch(conv)
    ELSE IF evaluated.value.understood
    THEN Outcome(conv,
                 Response(evaluated.value.feedback \o EarlierUnlockSuffix,
                          "complete", FALSE, FALSE, FALSE, FALSE, 0),
                 0)
    ELSE Outcome(conv,
                 Response(evaluated.value.feedback \o <<" ">>
                             \o OrElse(evaluated.value.suggestion,
                                       <<"Can you try explaining it differently?">>),
                          "understanding", FALSE, TRUE, FALSE, FALSE, 0),
                 0)

EarlierFinishAnswer(message, result) ==
    \E outcome \in {EarlierAfterAnswer(currentConversation, message, result)} :
        /\ currentConversation' = outcome.conv
        /\ usage' = updateUsage(usage, result.updates)
        /\ resolved' = resolved + 1
        /\ resp' = Turn("question", message, "question", outcome, 1, <<TRUE, 0>>,
                        Seen(result), <<>>, NoJudgement, NoOracle)

(* process-message with stage 'question' *)
EarlierQuestion(message) ==
    /\ started < MaxStarted
    /\ started' = started + 1
    /\ IF AnswerSuspends(provider, message, responseLengthCfg)
       THEN /\ BagCardinality(inflight) < MaxInFlight
            /\ inflight' = inflight (+) SetToBag({Pending("question", message, "question", <<TRUE, 0>>)})
            /\ UNCHANGED <<currentConversation, usage, resp, resolved>>
       ELSE /\ \E result \in AnswerResults(provider, message, responseLengthCfg) :
                  EarlierFinishAnswer(message, result)
            /\ UNCHANGED inflight
    /\ UNCHANGED Config

EarlierAnswerSettles(p) ==
    /\ p.kind = "question"
    /\ \E result \in AnswerResults(provider, p.message, responseLengthCfg) :
          EarlierFinishAnswer(p.message, result)
    /\ inflight' = inflight (-) SetToBag({p})
    /\ UNCHANGED <<started, Config>>

(* process-message with stage 'understanding': the evaluation request goes *)
(* out with the pending question and answer of that moment                 *)
EarlierReply(message) ==
    /\ started < MaxStarted
    /\ started' = started + 1
    /\ BagCardinality(inflight) < MaxInFlight
    /\ inflight' = inflight (+)
          SetToBag({Pending("evaluate", message, "understanding",
                            <<currentConversation.question, currentConversation.answer>>)})
    /\ UNCHANGED <<currentConversation, usage, resp, resolved, Config>>

EarlierEvaluationSettles(p, outs) ==
    /\ p.kind = "evaluate"
    /\ \E evaluated \in {evaluateUnderstanding(provider, outs)} :
       \E outcome \in {EarlierAfterEvaluation(currentConversation, evaluated)} :
          /\ currentConversation' = outcome.conv
          /\ resp' = Turn("evaluate", p.message, "understanding", outcome, 0, <<>>,
                          NoAnswerResult, p.answerArgs,
                          Judged(evaluated.value, outcome.conv, 1, FALSE), outs)
    /\ resolved' = resolved + 1
    /\ inflight' = inflight (-) SetToBag({p})
    /\ UNCHANGED <<started, usage, Config>>

EarlierOtherStage(message) ==
    /\ started < MaxStarted
    /\ started' = started + 1
    /\ resolved' = resolved + 1
    /\ resp' = Turn("none", message, "complete",
                    Outcome(currentConversation, NoResponse, 0), 0, <<>>,
                    NoAnswerResult, <<>>, NoJudgement, NoOracle)
    /\ UNCHANGED <<currentConversation, inflight, usage, Config>>

NextEarlier ==
    \/ \E m \in Messages : EarlierQuestion(m)
    \/ \E m \in Messages : EarlierReply(m)
    \/ \E m \in Messages : EarlierOtherStage(m)
    \/ \E p \in BagToSet(inflight) : EarlierAnswerSettles(p)
    \/ \E p \in BagToSet(inflight), outs \in ControllerEvalOracles :
          EarlierEvaluationSettles(p, outs)

SpecEarlier == InitAdapter /\ [][NextEarlier]_vars

----------------------------------------------------------------------------
(* The classifiers applied to inputs of their own: isNewQuestion to every  *)
(* text over a small alphabet and to the documented examples, getAgeGroup  *)
(* to an absent age and to every integer age of a range                    *)

MaxTextLen == 5
MaxAge == 19

TextAlphabet == {"h", "o", "w", "W", " ", "?"}

exWhatCausesRain == <<"W","h","a","t"," ","c","a","u","s","e","s"," ","r","a","i","n","?">>
exDoPlantsMoveFast == <<"d","o"," ","p","l","a","n","t","s"," ","m","o","v","e"," ","f","a","s","t">>
exIsThatTrue == <<"i","s"," ","t","h","a","t"," ","t","r","u","e","?">>

NewQuestionTexts ==
    UNION {[1..n -> TextAlphabet] : n \in 0..MaxTextLen}
    \cup {exWhatCausesRain, exDoPlantsMoveFast, exIsThatTrue}

(* AI answers: every text over a small alphabet and the documented example *)
AnswerAlphabet == {"a", ".", "!", "?", " "}

exPlantsGrow == <<"P","l","a","n","t","s"," ","g","r","o","w"," ","t","o","w","a","r","d"," ","l","i","g","h","t","."," ","W","h","a","t"," ","d","o"," ","y","o","u"," ","t","h","i","n","k"," ","h","e","l","p","s"," ","t","h","e","m"," ","s","e","n","s","e"," ","i","t","?">>

AnswerTexts ==
    UNION {[1..n -> AnswerAlphabet] : n \in 0..MaxTextLen} \cup {exPlantsGrow}

(* questions for the nonsense test: every text over a small alphabet, the  *)
(* documented examples and some fillers                                    *)
NonsenseAlphabet == {"a", "b", "1", "!", " "}

exAsdf == <<"a","s","d","f">>
exHi == <<"h","i">>
exWhyIsTheSkyBlue == <<"W","h","y"," ","i","s"," ","t","h","e"," ","s","k","y"," ","b","l","u","e","?">>

exGravity == <<"G","r","a","v","i","t","y">>

NonsenseTexts ==
    UNION {[1..n -> NonsenseAlphabet] : n \in 0..MaxTextLen}
    \cup {exAsdf, exHi, exWhyIsTheSkyBlue, <<"T","e","s","t"," ","m","e">>, <<"L","e","t"," ","m","e"," ","i","n">>,
          <<"b","e","e","s">>, <<"f","o","o"," ","i","s","?">>, exGravity}

(* n words "a" separated by single spaces *)
Filler(n) == [i \in 1..(2 * n - 1) |-> IF i % 2 = 1 THEN "a" ELSE " "]

MaxWords == 22

(* replies for the engagement test: every short text over a small alphabet *)
(* and replies of 1..MaxWords filler words followed by marker words        *)
EngagementAlphabet == {"s", "o", " ", "?"}

EngagementEndings ==
    {<<>>, <<" ","w","o","w">>, <<" ","s","o">>, <<" ","o","k","?">>, <<" ","w","o","w"," ","s","o">>,
     <<" ","w","o","w","?">>, <<" ","s","o","?">>, <<" ","w","o","w"," ","s","o","?">>, <<" ","s","w","o","w">>,
     <<" ","W","O","W">>, <<" ","s","o","f","a">>}

EngagementTexts ==
    UNION {[1..n -> EngagementAlphabet] : n \in 0..MaxTextLen}
    \cup {Filler(n) \o e : n \in 1..MaxWords, e \in EngagementEndings}

(* replies for the complexity test *)
ComplexityAlphabet == {"a", ".", "!", " "}

ComplexityEndings ==
    {<<>>, <<" ","b","e","c","a","u","s","e">>, <<" ","l","i","k","e">>, <<" ","i","d","e","a">>, <<".">>,
     <<"."," ","a",".">>, <<" ","c","o","m","p","a","r","e","d"," ","t","o">>, <<" ","c","o","m","p","a","r","e","d">>, <<" ","l","i","k","e","l","y">>,
     <<" ","B","e","c","a","u","s","e"," ","i","d","e","a">>, <<" ","l","i","k","e"," ","i","d","e","a">>, <<" ","l","i","k","e",".">>,
     <<" ","i","d","e","a","."," ","a","!">>, <<" ","l","i","k","e","."," ","a","?">>}

ComplexityTexts ==
    UNION {[1..n -> ComplexityAlphabet] : n \in 0..MaxTextLen}
    \cup {Filler(n) \o e : n \in 1..MaxWords, e \in ComplexityEndings}

(* questions for the topic test: up to MaxTopicWords phrases of a small    *)
(* vocabulary separated by single spaces                                   *)
MaxTopicWords == 3

TopicVocabulary ==
    {<<"h","o","w">>, <<"L","i","g","h","t">>, <<"m","o","o","n">>, <<"r","o","b","o","t">>,
     <<"c","a","t">>, <<"s","u","n","n","y">>, <<"W","h","y"," ","d","o"," ","w","e">>, <<"m","u","s","i","c">>}

RECURSIVE JoinWords(_)
JoinWords(ws) ==
    IF ws = <<>> THEN <<>>
    ELSE IF Len(ws) = 1 THEN ws[1]
    ELSE ws[1] \o <<" ">> \o JoinWords(Tail(ws))

TopicTexts ==
    {JoinWords(ws) : ws \in UNION {[1..n -> TopicVocabulary] : n \in 0..MaxTopicWords}}

(* child profiles and counts for generateExampleQuestions: interests are   *)
(* lists without repetition of up to MaxInterests labels, two of them      *)
(* mapped to 'animals', one to 'music', one not mapped                     *)
MaxInterests == 2
MaxCount == 2

ProfileAges == {<<>>, <<3>>, <<7>>, <<10>>, <<15>>}

InterestLabels == {<<"A","n","i","m","a","l","s">>, <<"D","o","g","s">>, <<"C","h","e","s","s">>, <<"M","u","s","i","c">>}

InterestLists ==
    {l \in UNION {[1..n -> InterestLabels] : n \in 0..MaxInterests} :
        \A i, j \in 1..Len(l) : l[i] = l[j] => i = j}

Profiles ==
    {[age |-> a, interests |-> l, count |-> c] :
        a \in ProfileAges, l \in InterestLists, c \in 0..MaxCount}

AgeInputs == {<<>>} \cup {<<n>> : n \in (0 - MaxAge)..MaxAge}

InitPure ==
    /\ provider = "openai"
    /\ responseLengthCfg = FALSE
    /\ questionGenerator = FALSE
    /\ childAge = <<>>
    /\ currentConversation = InitialConversation
    /\ inflight = EmptyBag
    /\ started = 0
    /\ resolved = 0
    /\ usage = [totalTokens |-> 0, conversations |-> 0]
    /\ resp = NoTurn
    /\ isUnlocked = FALSE
    /\ mainWindow = InitialWindow
    /\ \/ \E t \in NewQuestionTexts : call = Call("text", t, <<>>, <<>>)
       \/ \E a \in AgeInputs : call = Call("age", a, <<>>, <<>>)
       \/ \E t \in AnswerTexts : call = Call("answerText", t, <<>>, <<>>)
       \/ \E t \in NonsenseTexts : call = Call("question", t, <<>>, <<>>)
       \/ \E t \in EngagementTexts : call = Call("engagementReply", t, <<>>, <<>>)
       \/ \E t \in ComplexityTexts : call = Call("complexityReply", t, <<>>, <<>>)
       \/ \E t \in TopicTexts : call = Call("topicQuestion", t, <<>>, <<>>)
       \/ \E pr \in Profiles : call = Call("profile", pr, <<>>, <<>>)

NotCall ==
    <<provider, responseLengthCfg, questionGenerator, childAge,
      currentConversation, inflight, started, resolved, usage, resp,
      isUnlocked, mainWindow>>

(* const isNewQuestion = hasQuestionMark && startsWithQuestionWord *)
ApplyIsNewQuestion ==
    /\ call.op = "text"
    /\ call' = Call("isNewQuestion", call.question, <<>>, isNewQuestion(call.question))
    /\ UNCHANGED NotCall

(* ai.getAgeGroup(childAge) *)
ApplyGetAgeGroup ==
    /\ call.op = "age"
    /\ call' = Call("getAgeGroup", call.question, <<>>, getAgeGroup(call.question))
    /\ UNCHANGED NotCall

(* extractFollowUpQuestion(aiResponse) of the main process and            *)
(* ai.extractFollowUpQuestionFromResponse(response)                        *)
ApplyExtractFollowUp ==
    /\ call.op = "answerText"
    /\ call' = Call("extractFollowUp", call.question, <<>>,
                    <<extractFollowUpQuestion(call.question),
                      extractFollowUpQuestionFromResponse(call.question)>>)
    /\ UNCHANGED NotCall

(* ai.isNonsensicalQuestion(question) *)
ApplyIsNonsensical ==
    /\ call.op = "question"
    /\ call' = Call("isNonsensicalQuestion", call.question, <<>>,
                    isNonsensicalQuestion(call.question))
    /\ UNCHANGED NotCall

(* tracker.assessEngagementLevel(response) *)
ApplyAssessEngagement ==
    /\ call.op = "engagementReply"
    /\ call' = Call("assessEngagementLevel", call.question, <<>>,
                    assessEngagementLevel(call.question))
    /\ UNCHANGED NotCall

(* tracker.analyzeResponseComplexity(response) *)
ApplyAnalyzeComplexity ==
    /\ call.op = "complexityReply"
    /\ call' = Call("analyzeResponseComplexity", call.question, <<>>,
                    analyzeResponseComplexity(call.question))
    /\ UNCHANGED NotCall

(* tracker.analyzeQuestionTopics(question) *)
ApplyAnalyzeTopics ==
    /\ call.op = "topicQuestion"
    /\ call' = Call("analyzeQuestionTopics", call.question, <<>>,
                    analyzeQuestionTopics(call.question))
    /\ UNCHANGED NotCall

(* the band of one age in the adapter, in the question generator and in    *)
(* the conversation tracker                                                *)
ApplyAgeBands ==
    /\ call.op = "age"
    /\ call' = Call("ageBands", call.question, <<>>,
                    <<getAgeGroup(call.question),
                      QuestionGeneratorGetAgeGroup(call.question),
                      recommendNextComplexityAgeGroup(call.question)>>)
    /\ UNCHANGED NotCall

(* questionGenerator.generateExampleQuestions(childProfile, count) *)
ApplyGenerateExampleQuestions ==
    /\ call.op = "profile"
    /\ \E questions \in generateExampleQuestions(call.question, call.question.count) :
          call' = Call("generateExampleQuestions", call.question, <<>>, questions)
    /\ UNCHANGED NotCall

NextPure ==
    \/ ApplyIsNewQuestion
    \/ ApplyGetAgeGroup
    \/ ApplyExtractFollowUp
    \/ ApplyIsNonsensical
    \/ ApplyAssessEngagement
    \/ ApplyAnalyzeComplexity
    \/ ApplyAnalyzeTopics
    \/ ApplyGenerateExampleQuestions
    \/ ApplyAgeBands

SpecPure == InitPure /\ [][NextPure]_vars

----------------------------------------------------------------------------
(* Properties of the handler and of the adapter *)

(* the evaluation the configured service gives when the provider treats    *)
(* the evaluation request of the last turn as its oracle says              *)
Verdict == evaluateUnderstanding(provider, resp.oracle).value

(* a step in which an invocation of the handler resolves *)
TurnResolves == resolved' = resolved + 1

(* C1: in an understanding-stage turn that is not a new question, when the *)
(* adapter's evaluation of the reply is understood=false, the response     *)
(* stays in 'understanding' with retry, its message is the feedback, a     *)
(* space and the suggestion, and nothing unlocks.                          *)
C1_NotUnderstoodStaysLocked ==
    (resp.kind = "evaluate" /\ Verdict.isObject /\ ~Verdict.understood)
    => /\ resp.response.stage = "understanding"
       /\ resp.response.retry
       /\ resp.response.message = Verdict.feedback \o <<" ">> \o Verdict.suggestion
       /\ ~resp.response.unlock
       /\ resp.unlockEvents = 0

(* C2: every understanding-stage turn that is not a new question calls     *)
(* ai.evaluateUnderstanding exactly once, with the extracted follow-up (or *)
(* the pending question), the pending answer, the utterance and the        *)
(* history, and unlocks exactly when that call's verdict is understood.    *)
C2_EvaluateCalledOnceAndDecides ==
    [][(TurnResolves /\ resp'.kind = "evaluate")
       => /\ resp'.evalCalls = 1
          /\ resp'.evalArgs[1] =
                OrElse(FollowUp(OrElse(currentConversation.answer, <<>>)),
                       currentConversation.question)
          /\ resp'.evalArgs[2] = currentConversation.answer
          /\ resp'.evalArgs[3] = resp'.input
          /\ resp'.response.unlock =
                evaluateUnderstanding(provider, resp'.oracle).value.understood]_vars

(* C3: a stage-'question' turn with a non-nonsensical utterance whose      *)
(* ai.answerQuestion returns answers with stage 'understanding' and the    *)
(* answer as message, and leaves the utterance and the answer pending.     *)
C3_QuestionStoresPending ==
    [][(TurnResolves /\ resp'.kind = "question" /\ resp'.adapter.kind = "return"
           /\ ~Nonsensical(resp'.input))
       => /\ resp'.response.stage = "understanding"
          /\ resp'.response.message = resp'.adapter.answer
          /\ currentConversation'.question = resp'.input
          /\ currentConversation'.answer = resp'.adapter.answer]_vars

C3_Witness ==
    /\ resp.kind = "question"
    /\ resp.adapter.kind = "return"
    /\ ~Nonsensical(resp.input)
    /\ resp.response.stage = "understanding"
    /\ currentConversation.question = resp.input
    /\ currentConversation.answer = resp.adapter.answer

C5_AnswerFailureResets ==
    [][(TurnResolves /\ resp'.kind \in {"question", "newQuestion"}
           /\ resp'.adapter.kind = "throw")
       => /\ resp'.response.stage = "question"
          /\ resp'.response.error
          /\ resp'.response.message = ConnectivityMessage
          /\ ~resp'.response.unlock
          /\ resp'.unlockEvents = 0
          /\ currentConversation' = InitialConversation]_vars

C7_EvaluateNeverRejects ==
    call.op = "evaluate"
    => /\ call.result.kind = "resolve"
       /\ (\A i \in 1..maxRetries : call.outs[i].kind # "json")
             => /\ call.result.value.understood
                /\ call.result.value \in
                      {AIServiceDefaultEvaluation, GeminiDefaultEvaluation}

C7_Witness ==
    /\ call.op = "evaluate"
    /\ call.outs[1].kind = "badJson"
    /\ call.outs[2].kind = "hang"
    /\ call.outs[3].kind = "eOther"
    /\ call.result.kind = "resolve"
    /\ call.result.value.understood

(* C8: a stage-'question' turn with a nonsensical utterance answers with   *)
(* stage 'question' and the redirect message, is no error, unlocks nothing *)
(* and leaves the pending question and answer as they were, for every      *)
(* provider.                                                               *)
C8_NonsenseStaysInQuestion ==
    [][(TurnResolves /\ resp'.kind = "question" /\ Nonsensical(resp'.input))
       => /\ resp'.response.stage = "question"
          /\ resp'.response.message = RedirectMessage
          /\ ~resp'.response.error
          /\ ~resp'.response.unlock
          /\ resp'.unlockEvents = 0
          /\ currentConversation'.question = currentConversation.question
          /\ currentConversation'.answer = currentConversation.answer]_vars

(* C9: for every provider, answerQuestion on a nonsensical question        *)
(* returns the redirect with zero usage and issues no provider request.    *)
C9_NonsenseShortCircuits ==
    (call.op = "answer" /\ Nonsensical(call.question))
    => /\ call.result.kind = "return"
       /\ call.result.answer = RedirectMessage
       /\ call.result.tokens = 0
       /\ call.result.requests = 0

(* C10: an understanding-stage utterance with a question mark that does    *)
(* not start with an interrogative word never takes the new-question       *)
(* branch: ai.answerQuestion is not called and the pending question and    *)
(* answer are still there when the evaluation arguments are built.         *)
C10_MarkAloneIsNoNewQuestion ==
    [][(TurnResolves /\ resp'.inStage = "understanding"
           /\ hasQuestionMark(resp'.input) /\ ~startsWithQuestionWord(resp'.input))
       => /\ resp'.kind = "evaluate"
          /\ resp'.answerCalls = 0
          /\ resp'.evalArgs[2] = currentConversation.answer
          /\ resp'.evalArgs[1] \in
                {currentConversation.question,
                 extractFollowUpQuestion(currentConversation.answer)}]_vars

C10_Witness ==
    /\ resp.kind = "evaluate"
    /\ resp.input = mIs
    /\ resp.answerCalls = 0
    /\ resp.evalArgs[2] = aFollow
    /\ resp.evalArgs[1] = <<"B","?">>

(* C11: an understanding-stage utterance that is a new question discards   *)
(* the pending question and answer, calls ai.answerQuestion with           *)
(* isFirstResponse true and conversation length 0, and when that call      *)
(* returns an answer the response has stage 'understanding' and the        *)
(* pending pair is the utterance and the answer.                           *)
C11_NewQuestionStartsAfresh ==
    [][/\ \A p \in BagToSet(inflight') :
             (p.kind = "newQuestion" /\ CopiesIn(p, inflight') > CopiesIn(p, inflight))
             => /\ currentConversation'.question \notin Messages
                /\ currentConversation'.answer \notin Answers
                /\ p.answerArgs = <<TRUE, 0>>
       /\ (TurnResolves /\ resp'.kind = "newQuestion")
             => /\ resp'.inStage = "understanding"
                /\ resp'.answerArgs = <<TRUE, 0>>
                /\ resp'.answerCalls = 1
                /\ (resp'.adapter.kind = "return" /\ ~resp'.adapter.isNonsense)
                      => /\ resp'.response.stage = "understanding"
                         /\ resp'.response.message = resp'.adapter.answer
                         /\ currentConversation'.question = resp'.input
                         /\ currentConversation'.answer = resp'.adapter.answer]_vars

C11_Witness ==
    /\ resp.kind = "newQuestion"
    /\ resp.input = mWhy
    /\ resp.answerArgs = <<TRUE, 0>>
    /\ resp.adapter.kind = "return"
    /\ resp.response.stage = "understanding"
    /\ currentConversation.question = mWhy
    /\ currentConversation.answer = resp.adapter.answer

InterrogativeWords ==
    {<<"w","h","a","t">>, <<"h","o","w">>, <<"w","h","y">>, <<"w","h","e","n">>,
     <<"w","h","e","r","e">>, <<"w","h","o">>}

(* C12: isNewQuestion(text) is true exactly when the text contains a       *)
(* question mark and, trimmed and lower-cased, begins with what, how, why, *)
(* when, where or who followed by a space; it is true for                  *)
(* "What causes rain?" and false for "do plants move fast" and             *)
(* "is that true?".                                                        *)
C12_IsNewQuestionExactly ==
    call.op = "isNewQuestion"
    => /\ call.result =
             (/\ \E i \in 1..Len(call.question) : call.question[i] = "?"
              /\ \E w \in InterrogativeWords :
                   /\ Len(Trim(ToLowerCase(call.question))) > Len(w)
                   /\ SubSeq(Trim(ToLowerCase(call.question)), 1, Len(w)) = w
                   /\ Trim(ToLowerCase(call.question))[Len(w) + 1] = " ")
       /\ call.question = exWhatCausesRain => call.result
       /\ call.question = exDoPlantsMoveFast => ~call.result
       /\ call.question = exIsThatTrue => ~call.result

C12_Witness ==
    /\ call.op = "isNewQuestion"
    /\ call.question = <<"W","h","o"," ","?">>
    /\ call.result

(* the attempts of the last direct call whose request the provider answers *)
OkAttempts == {i \in 1..maxRetries : call.outs[i].kind = "ok"}

C14_UnavailableGivesFallback ==
    (/\ call.op = "answer"
     /\ provider = "gemini"
     /\ responseLengthCfg
     /\ \A i \in 1..maxRetries : call.outs[i].kind = "e503")
    => /\ call.result.kind = "return"
       /\ call.result.answer = getFallbackAnswer(call.question)

(* C15: in every evaluateUnderstanding call, a request the provider never  *)
(* answers is ended by the adapter's own timeout, which is due before the  *)
(* transport's.                                                            *)
C15_AdapterTimeoutFiresFirst ==
    call.op = "evaluate"
    => \A i \in 1..Len(call.result.endedBy) :
          call.outs[i].kind = "hang" => call.result.endedBy[i] = "adapterTimeout"

(* the step suspends invocation p at its await *)
Suspends(p) == CopiesIn(p, inflight') > CopiesIn(p, inflight)

(* C16: the handler changes currentConversation only after the adapter     *)
(* call of the turn has settled: a step that leaves an invocation          *)
(* suspended in its call has not changed currentConversation.              *)
C16_NoMutationBeforeCallSettles ==
    [][\A p \in BagToSet(inflight') :
          Suspends(p) => currentConversation' = currentConversation]_vars

(* C17: every answerQuestion call that returns a provider response adds 1  *)
(* to usage.conversations and the call's tokens to usage.totalTokens,      *)
(* whichever provider is configured.                                       *)
C17_AnswerUpdatesUsage ==
    [][(/\ started' = started + 1
        /\ call'.op = "answer"
        /\ call'.result.kind = "return"
        /\ call'.result.requests > 0)
       => usage' = [totalTokens |-> usage.totalTokens + call'.result.tokens,
                    conversations |-> usage.conversations + 1]]_vars

(* C18: usage updates are never lost and the counters never decrease,      *)
(* however the calls of concurrent invocations interleave: every change of *)
(* the record adds one conversation and the tokens of the call that        *)
(* applied it to what was there.                                           *)
C18_UsageUpdatesAccumulate ==
    [][/\ usage'.conversations >= usage.conversations
       /\ usage'.totalTokens >= usage.totalTokens
       /\ usage' # usage
             => /\ TurnResolves
                /\ resp'.answerCalls = 1
                /\ resp'.adapter.kind = "return"
                /\ usage'.conversations = usage.conversations + 1
                /\ usage'.totalTokens = usage.totalTokens + resp'.adapter.tokens]_vars

(* a call has applied its update while the call of an invocation begun    *)
(* before it settled is still in flight                                    *)
C18_Witness ==
    /\ usage.conversations = 1
    /\ usage.totalTokens = resp.adapter.tokens
    /\ resp.kind = "question"
    /\ currentConversation.question = resp.input
    /\ currentConversation.stage = "undefined"
    /\ \E p \in BagToSet(inflight) : p.kind = "newQuestion"

(* C19: currentConversation equals its initial value (stage 'question',    *)
(* question null, answer null) right after an unlock, right after a topic  *)
(* switch has discarded the pending state, and right after an              *)
(* unrecoverable error.                                                    *)
C19_ResetMeansInitialValue ==
    [][/\ (TurnResolves /\ resp'.response.unlock)
             => currentConversation' = InitialConversation
       /\ (TurnResolves /\ resp'.response.error)
             => currentConversation' = InitialConversation
       /\ \A p \in BagToSet(inflight') :
             (p.kind = "newQuestion" /\ Suspends(p))
             => currentConversation' = InitialConversation]_vars

(* C20: getAgeGroup is defined for every integer age and for an absent     *)
(* age: 5-8 is young, 9-12 middle, 13-17 teen, every age below 5 young,    *)
(* every age above 17 teen, and an absent age teen.                        *)
C20_AgeBandOfEveryAge ==
    call.op = "getAgeGroup"
    => call.result =
          (IF call.question = <<>> THEN "teen"
           ELSE IF call.question[1] < 5 THEN "young"
           ELSE IF call.question[1] <= 8 THEN "young"
           ELSE IF call.question[1] <= 12 THEN "middle"
           ELSE "teen")

(* the characters of a text *)
CharsOf(t) == {t[i] : i \in 1..Len(t)}

C22_NonsenseExactly ==
    call.op = "isNonsensicalQuestion"
    => LET t == Trim(call.question)
           low == ToLowerCase(t)
           letters == {c \in CharsOf(t) : IsLetter(c)}
           begins(p) == Len(low) >= Len(p) /\ \A i \in 1..Len(p) : low[i] = p[i]
       IN /\ call.result =
                (\/ Len(t) < 3
                 \/ letters = {}
                 \/ Cardinality(CharsOf(t)) = 1 /\ Len(t) >= 4
                 \/ letters = CharsOf(t) /\ Len(t) >= 5
                 \/ CharsOf(t) \subseteq {"0","1","2","3","4","5","6","7","8","9"} \cup WhiteSpace
                 \/ CharsOf(t) \subseteq {"!","@","#","$","%","^","&","*","(",")"}
                 \/ \E p \in JunkPrefixes : begins(p)
                 \/ \E c \in CharsOf(low) : IsLetter(c) /\ begins(<<c, c, c>>)
                 \/ low \in Greetings \cup {TestToken, LetMeIn, ThisIsBroken})
          /\ call.question = exAsdf => call.result
          /\ call.question = exHi => call.result
          /\ call.question = exWhyIsTheSkyBlue => ~call.result

C22_Witness ==
    /\ call.op = "isNonsensicalQuestion"
    /\ call.question = <<"a","b"," ","a","!">>
    /\ ~call.result

(* the number of words that split(' ') yields, counted from the spaces *)
WordCount(t) == Len(SelectSeq(t, LAMBDA c : c = " ")) + 1

(* the words of a list that stand in a text at word boundaries *)
WordsFound(t, words) == {w \in words : \E i \in 1..Len(t) : WordAt(t, w, i)}

(* C23: assessEngagementLevel scores word count (>15: 3, >8: 2, >3: 1), a  *)
(* question mark (+2), an emotional word (+2) and a connective word (+1);  *)
(* a score of 6 or more gives high, 3 or more medium, anything lower low;  *)
(* the result is always one of the three levels.                           *)
C23_EngagementByThresholds ==
    call.op = "assessEngagementLevel"
    => LET t == call.question
           n == WordCount(t)
           score == (CASE n > 15 -> 3 [] n > 8 /\ n <= 15 -> 2
                       [] n > 3 /\ n <= 8 -> 1 [] OTHER -> 0)
                    + (IF "?" \in CharsOf(t) THEN 2 ELSE 0)
                    + (IF WordsFound(t, EmotionalWords) # {} THEN 2 ELSE 0)
                    + (IF WordsFound(t, ElaborativeWords) # {} THEN 1 ELSE 0)
       IN /\ call.result \in {"low", "medium", "high"}
          /\ (call.result = "high") = (score >= 6)
          /\ (call.result = "medium") = (score >= 3 /\ score < 6)
          /\ (call.result = "low") = (score < 3)

(* nine words, a question mark, an emotional and a connective word: 2+2+2+1 *)
C23_Witness ==
    /\ call.op = "assessEngagementLevel"
    /\ call.question = Filler(7) \o <<" ","w","o","w"," ","s","o","?">>
    /\ call.result = "high"

(* C24: analyzeResponseComplexity scores word count (>20: 2, >10: 1), a    *)
(* complex conjunction (+3), more than one clause (+2), a comparison word  *)
(* (+2) and an abstraction word (+3); a score of 6 or more gives complex,  *)
(* 3 or more developing, anything lower simple; the result is always one   *)
(* of the three levels.                                                    *)
C24_ComplexityByThresholds ==
    call.op = "analyzeResponseComplexity"
    => LET t == call.question
           n == WordCount(t)
           clauses == Len(SelectSeq(t, LAMBDA c : c \in {".", "!", "?"})) + 1
           score == (CASE n > 20 -> 2 [] n > 10 /\ n <= 20 -> 1 [] OTHER -> 0)
                    + (IF WordsFound(t, ComplexStructureWords) # {} THEN 3 ELSE 0)
                    + (IF clauses > 2 THEN 2 ELSE 0)
                    + (IF WordsFound(t, ComparisonWords) # {} THEN 2 ELSE 0)
                    + (IF WordsFound(t, AbstractWords) # {} THEN 3 ELSE 0)
       IN /\ call.result \in {"simple", "developing", "complex"}
          /\ (call.result = "complex") = (score >= 6)
          /\ (call.result = "developing") = (score >= 3 /\ score < 6)
          /\ (call.result = "simple") = (score < 3)

(* eleven words and a comparison word score 1+2 = 3: developing *)
C24_Witness ==
    /\ call.op = "analyzeResponseComplexity"
    /\ call.question = Filler(10) \o <<" ","l","i","k","e">>
    /\ call.result = "developing"

(* C25: analyzeQuestionTopics returns a non-empty list that holds every    *)
(* topic whose pattern matches the text; 'general' is in the list exactly  *)
(* when no pattern matches, and then it is the only entry.                 *)
C25_TopicsOrGeneral ==
    call.op = "analyzeQuestionTopics"
    => LET t == call.question
           listed == {call.result[i] : i \in 1..Len(call.result)}
           matching == {topic \in DOMAIN TopicWords : TopicMatches(topic, t)}
       IN /\ Len(call.result) >= 1
          /\ matching \subseteq listed
          /\ ("general" \in listed) = (matching = {})
          /\ "general" \in listed => call.result = <<"general">>
          /\ WordsFound(t, {<<"m","o","o","n">>}) # {}
                => {"nature", "space"} \subseteq listed
          /\ WordsFound(t, {<<"l","i","g","h","t">>, <<"m","o","o","n">>, <<"r","o","b","o","t">>,
                            <<"m","u","s","i","c">>, <<"w","h","y"," ","d","o"," ","w","e">>}) = {}
                => call.result = <<"general">>
          /\ t = <<"L","i","g","h","t"," ","h","o","w">> => call.result = <<"general">>

C25_Witness ==
    /\ call.op = "analyzeQuestionTopics"
    /\ call.question = <<"h","o","w"," ","L","i","g","h","t"," ","m","o","o","n">>
    /\ call.result = <<"science", "nature", "space">>

(* C26: on every failure path the message of the response is a fixed       *)
(* friendly string: the connectivity apology when an error reaches the     *)
(* outer catch, the unlock message of the child's age band when the        *)
(* evaluation try fails; no part of any response message is the message of *)
(* a provider error or of the error that was caught.                       *)
C26_FailureMessagesAreFixed ==
    resp.response.returned
    => /\ (resp.adapter.kind = "throw" \/ resp.response.error)
             => resp.response.message =
                   <<"Sorry, I'm having trouble connecting right now. Try asking in a different way or check your internet!">>
       /\ (resp.kind = "evaluate" /\ resp.evalCalls = 0)
             => resp.response.message \in
                   {<<"Great job! Computer unlocked!">>,
                    <<"Nice thinking! Computer unlocked!">>,
                    <<"Well done! Access granted!">>}
       /\ \A i \in 1..Len(resp.response.message) :
             <<resp.response.message[i]>> \notin
                ProviderErrorMessages \cup CaughtErrorMessages

C26_Witness ==
    /\ resp.adapter.kind = "throw"
    /\ resp.adapter.requests = maxRetries
    /\ resp.response.error
    /\ resp.response.message = ConnectivityMessage

(* C27: a session starts in stage 'question', and a turn submitted with    *)
(* stage 'complete' calls neither ai.answerQuestion nor                    *)
(* ai.evaluateUnderstanding, sends no 'unlock-computer', grants no unlock  *)
(* and leaves currentConversation, the usage counters and the suspended    *)
(* invocations as they were.                                               *)
C27_CompleteIsTerminal ==
    /\ currentConversation = [question |-> Null, answer |-> Null, stage |-> "question"]
    /\ [][(TurnResolves /\ resp'.inStage = "complete")
            => /\ resp'.answerCalls = 0
               /\ resp'.evalCalls = 0
               /\ resp'.adapter.requests = 0
               /\ resp'.unlockEvents = 0
               /\ ~resp'.response.unlock
               /\ currentConversation' = currentConversation
               /\ usage' = usage
               /\ inflight' = inflight]_vars

(* a 'complete' turn that found a pending question and left it in place *)
C27_Witness ==
    /\ resp.inStage = "complete"
    /\ resp.kind = "none"
    /\ currentConversation.question # Null
    /\ currentConversation.answer # Null

(* C28: every invocation that has resolved returned a response object with *)
(* a message and a stage among 'question', 'understanding' and 'complete'; *)
(* none resolved without a response.                                       *)
C28_AlwaysAResponse ==
    resp.kind # "init"
    => /\ resp.response.returned
       /\ resp.response.message # Undefined
       /\ resp.response.stage \in {"question", "understanding", "complete"}

(* the questions of a list *)
QuestionsOf(questions) == {questions[i] : i \in 1..Len(questions)}

(* C29: for a profile with at least one mapped interest and a count of at  *)
(* least 1, the example questions include a question made from the         *)
(* template of one of its mapped interests, whatever unmapped interests    *)
(* the profile lists beside it.                                            *)
C29_MappedInterestContributes ==
    (/\ call.op = "generateExampleQuestions"
     /\ call.question.count >= 1
     /\ \E i \in 1..Len(call.question.interests) :
           call.question.interests[i] \in DOMAIN interestMapping)
    => \E i \in 1..Len(call.question.interests), band \in {"young", "middle", "teen"} :
          /\ call.question.interests[i] \in DOMAIN interestMapping
          /\ personalizeQuestion(
                interestBasedTemplates[interestMapping[call.question.interests[i]]][band],
                call.question.interests[i]) \in QuestionsOf(call.result)

(* C30: every example question generated for a child comes from the        *)
(* templates of the child's age band (5-8 young, 9-12 middle, 13-17 teen,  *)
(* below 5 young, above 17 or absent teen): it is the band's template of   *)
(* one of the listed interests or one of the band's general questions.     *)
C30_QuestionsOfTheChildsBand ==
    call.op = "generateExampleQuestions"
    => LET age == call.question.age
           band == IF age = <<>> THEN "teen"
                   ELSE IF age[1] <= 8 THEN "young"
                   ELSE IF age[1] <= 12 THEN "middle"
                   ELSE "teen"
           ofBand ==
               generalQuestions[band]
               \cup {personalizeQuestion(interestBasedTemplates[interestMapping[i]][band], i) :
                        i \in QuestionsOf(call.question.interests) \cap DOMAIN interestMapping}
       IN QuestionsOf(call.result) \subseteq ofBand

(* C31: when the text holds several questions, each a '?' that follows a   *)
(* letter, each extractor returns the last of them alone: the result holds *)
(* one '?', its final character, and no earlier question of the text.      *)
C31_OnlyTheFinalQuestion ==
    (/\ call.op = "extractFollowUp"
     /\ Cardinality({i \in 1..Len(call.question) : call.question[i] = "?"}) >= 2
     /\ \A i \in 1..Len(call.question) :
           call.question[i] = "?" => (i > 1 /\ IsLetter(call.question[i - 1])))
    => \A k \in 1..2 :
          /\ call.result[k] # Null
          /\ {i \in 1..Len(call.result[k]) : call.result[k][i] = "?"}
                = {Len(call.result[k])}

(* C32: isNonsensicalQuestion is true only when the whole trimmed text is  *)
(* junk: shorter than 3 characters, without a letter, one character        *)
(* repeated, a keyboard-mash token, or exactly a filler such as a greeting *)
(* or "test". A question of several words that begins with a filler string *)
(* ("foo is?", "Test me") and a single word of 5 or more letters           *)
(* ("Gravity") are not nonsensical.                                        *)
C32_NonsenseIsConservative ==
    call.op = "isNonsensicalQuestion"
    => LET t == Trim(call.question)
           low == ToLowerCase(t)
       IN /\ call.question \in {<<"f","o","o"," ","i","s","?">>, <<"T","e","s","t"," ","m","e">>}
                => ~call.result
          /\ call.question = exGravity => ~call.result
          /\ call.result
                => \/ Len(t) < 3
                   \/ \A i \in 1..Len(t) : ~IsLetter(t[i])
                   \/ \A i \in 1..Len(t) : t[i] = t[1]
                   \/ low \in JunkPrefixes
                   \/ low \in Greetings \cup {TestToken, LetMeIn, ThisIsBroken}

(* C33: in every adapter call that issued a request, each retry was        *)
(* preceded by a wait and no wait follows the last request: the waits are  *)
(* one fewer than the requests, each is positive and each is longer than   *)
(* the one before.                                                         *)
C33_WaitsGrowBetweenAttempts ==
    (call.op \in {"answer", "evaluate"} /\ call.result.requests >= 1)
    => /\ Len(call.result.waits) = call.result.requests - 1
       /\ \A i \in 1..Len(call.result.waits) : call.result.waits[i] > 0
       /\ \A i \in 2..Len(call.result.waits) :
             call.result.waits[i] > call.result.waits[i - 1]

(* C34: in GeminiService.answerQuestion a request that fails with an error *)
(* other than status 503 is the last request of the call.                  *)
C34_OtherErrorsAreNotRetried ==
    (call.op = "answer" /\ provider = "gemini")
    => \A i \in 1..call.result.requests :
          call.outs[i].kind = "eOther" => call.result.requests = i

(* C35: evaluateUnderstanding issues at most 3 provider requests, and when *)
(* every request fails with a transient error (network, timeout, 5xx) it   *)
(* issues all 3 before it resolves to the default evaluation.              *)
C35_EvaluateRetriesTransientErrors ==
    call.op = "evaluate"
    => /\ call.result.requests <= maxRetries
       /\ (\A i \in 1..maxRetries : call.outs[i].kind \in {"e503", "eOther", "hang"})
             => /\ call.result.requests = maxRetries
                /\ call.result.kind = "resolve"
                /\ call.result.value.understood

(* the part of a response that gates access *)
Gate(response) ==
    <<response.returned, response.stage, response.unlock, response.retry, response.error>>

(* C36: the gating of a turn does not depend on the child's age: for the   *)
(* same utterance, stored conversation and adapter results, the handler    *)
(* run with any other age returns the same stage, unlock, retry and error  *)
(* values, sends as many unlock events and leaves the same conversation;   *)
(* only the message may differ.                                            *)
C36_GatingIgnoresProfile ==
    [][(TurnResolves /\ resp'.kind = "evaluate")
          => \A age \in ChildAges :
                LET other == Decide(TryEvaluate(provider, currentConversation, resp'.oracle),
                                    age, questionGenerator, resp'.input)
                IN /\ Gate(other.response) = Gate(resp'.response)
                   /\ other.unlockEvents = resp'.unlockEvents
                   /\ other.conv = currentConversation']_vars

(* a reply that unlocked for a child of 7 with the message of the young    *)
(* band, which is not the message a child without an age gets              *)
C36_Witness ==
    /\ resp.kind = "evaluate"
    /\ childAge = <<7>>
    /\ resp.response.unlock
    /\ resp.response.message = <<"Great job! Computer unlocked!">>
    /\ resp.response.message # UnlockMessage(<<>>)

(* C37: for every integer age the adapter's getAgeGroup, the question      *)
(* generator's getAgeGroup and the band computed in                        *)
(* recommendNextComplexity are the same band.                              *)
C37_OneAgeBandFunction ==
    (call.op = "ageBands" /\ call.question # <<>>)
    => /\ call.result[1] = call.result[2]
       /\ call.result[1] = call.result[3]

(* a field of currentConversation that holds a text *)
IsSet(field) == field \notin {Null, Undefined}

(* C38: however concurrent turns interleave, the pending pair is whole:     *)
(* whenever currentConversation.answer is set the question is set too, and *)
(* every step that leaves a changed conversation with an answer is the     *)
(* resolution of an ai.answerQuestion call, storing the utterance of that   *)
(* turn together with the answer that call returned.                       *)
C38_PendingPairIsWhole ==
    /\ IsSet(currentConversation.answer) => IsSet(currentConversation.question)
    /\ [][/\ IsSet(currentConversation'.answer) => IsSet(currentConversation'.question)
          /\ (currentConversation' # currentConversation /\ IsSet(currentConversation'.answer))
                => /\ TurnResolves
                   /\ resp'.adapter.kind = "return"
                   /\ currentConversation'.question = resp'.input
                   /\ currentConversation'.answer = resp'.adapter.answer]_vars

(* a pair stored by one turn while another invocation is still suspended   *)
(* in its call                                                             *)
C38_Witness ==
    /\ IsSet(currentConversation.answer)
    /\ currentConversation.question = resp.input
    /\ currentConversation.answer = resp.adapter.answer
    /\ \E p \in BagToSet(inflight) : p.message # resp.input

(* C39: generateExampleQuestions returns exactly count questions, for a    *)
(* count of 0 and more, every age or none, and every list of interests,    *)
(* empty or entirely unmapped ones included.                               *)
C39_ExactlyCountQuestions ==
    call.op = "generateExampleQuestions"
    => Len(call.result) = call.question.count

(* two questions for a child without an age whose only interest is not     *)
(* mapped                                                                  *)
C39_Witness ==
    /\ call.op = "generateExampleQuestions"
    /\ call.question.age = <<>>
    /\ call.question.interests = <<<<"C","h","e","s","s">>>>
    /\ call.question.count = 2
    /\ Len(call.result) = 2

(* C40: the lock flag only ever opens: isUnlocked starts false, a step     *)
(* that makes it true is the unlock-app event, the emergency-unlock        *)
(* handler or the emergency-exit shortcut, no step makes it false again,   *)
(* a close request made while it is false is vetoed and leaves the window  *)
(* open and the app running, and no step of a process-message turn changes *)
(* it                                                                      *)
C40_LockOnlyOpens ==
    /\ isUnlocked = FALSE
    /\ [][/\ isUnlocked => isUnlocked'
          /\ (~isUnlocked /\ isUnlocked') =>
                (UnlockApp \/ EmergencyUnlock \/ EmergencyShortcut)
          /\ (~isUnlocked /\ CloseRequested) =>
                /\ mainWindow'.vetoed
                /\ mainWindow'.state = "open"
                /\ ~mainWindow'.quit
          /\ Next => isUnlocked' = isUnlocked]_vars

(* a turn has answered that the computer is unlocked, the flag is still    *)
(* false, and a close request has just been vetoed                         *)
C40_Witness ==
    /\ resp.kind = "evaluate"
    /\ resp.response.unlock
    /\ ~isUnlocked
    /\ mainWindow.lastEvent = "close"
    /\ mainWindow.vetoed
    /\ mainWindow.state = "open"

====
